---- MODULE Spec2Model ----
(***************************************************************************)
(* Model of the generator tools of autocraft (tools/custom_tool.py) and of  *)
(* the tool lookup of the crew builder (crew.py).                          *)
(*                                                                         *)
(* Text is a sequence of characters, each character a one-character        *)
(* string; two characters outside ASCII are written by their code point    *)
(* ("U+00E9", "U+20AC"), and the text of pom.xml is a sequence of longer   *)
(* pieces, the fragments the document is assembled from.  A filesystem     *)
(* path is what pathlib.PurePosixPath keeps of a string: a root ("", "/"   *)
(* or "//") and the list of segments.                                      *)
(* The filesystem is the pair (files, dirs): files maps the path of every  *)
(* regular file to its text, dirs is the set of directories made so far;   *)
(* a path without segments (".", "/") is always a directory.               *)
(***************************************************************************)
EXTENDS Integers, Sequences, FiniteSets, TLC

VARIABLES
  files,      \* path -> text, for every regular file
  dirs,       \* the directories made so far
  before,     \* the filesystem as the last call found it
  op,         \* the tool called last
  args,       \* its arguments
  result,     \* what it returned or raised
  calls,      \* the number of calls made
  instances,  \* the tool objects made by get_tool_by_name
  loaded      \* the template constants of the module, as read at import

vars == <<files, dirs, before, op, args, result, calls, instances, loaded>>

(***************************************************************************)
(* Bounds                                                                  *)
(***************************************************************************)
MaxCalls == 3
MaxBodyLen == 2
MaxImports == 2
MaxDeps == 2
MaxPlugins == 2
MaxNames == 3
MaxEndpoints == 3
MaxSections == 2

\* the largest number of agents in agents_cfg
MaxAgents == 2

\* the largest number of tasks in tasks_cfg
MaxTasks == 2

(***************************************************************************)
(* Text helpers                                                            *)
(***************************************************************************)
None == "None"

NL == "\n"

RECURSIVE SeqsUpTo(_, _)
SeqsUpTo(S, n) ==
  IF n = 0 THEN {<<>>}
  ELSE LET shorter == SeqsUpTo(S, n - 1)
       IN  shorter \cup {Append(s, x) : s \in {t \in shorter : Len(t) = n - 1}, x \in S}

\* sep.join(ss)
RECURSIVE Join(_, _)
Join(ss, sep) ==
  IF ss = <<>> THEN <<>>
  ELSE IF Len(ss) = 1 THEN ss[1]
  ELSE ss[1] \o sep \o Join(Tail(ss), sep)

\* s.split(c) for a one-character separator
RECURSIVE SplitAcc(_, _, _)
SplitAcc(s, c, cur) ==
  IF s = <<>> THEN <<cur>>
  ELSE IF Head(s) = c THEN <<cur>> \o SplitAcc(Tail(s), c, <<>>)
  ELSE SplitAcc(Tail(s), c, Append(cur, Head(s)))

Split(s, c) == SplitAcc(s, c, <<>>)

Whitespace == {" ", "\t", "\n", "\r"}

RECURSIVE LStrip(_)
LStrip(s) == IF s # <<>> /\ Head(s) \in Whitespace THEN LStrip(Tail(s)) ELSE s

RECURSIVE RStrip(_)
RStrip(s) ==
  IF s # <<>> /\ s[Len(s)] \in Whitespace THEN RStrip(SubSeq(s, 1, Len(s) - 1)) ELSE s

\* str.strip()
Strip(s) == RStrip(LStrip(s))

\* str.replace(a, b) for a one-character a
Replace(s, a, b) == [i \in 1..Len(s) |-> IF s[i] = a THEN b ELSE s[i]]

\* str.splitlines(): breaks at \n, \r and \r\n, no empty last line
RECURSIVE SplitLinesAcc(_, _)
SplitLinesAcc(s, cur) ==
  IF s = <<>> THEN (IF cur = <<>> THEN <<>> ELSE <<cur>>)
  ELSE IF Head(s) = "\r" /\ Len(s) > 1 /\ s[2] = "\n"
       THEN <<cur>> \o SplitLinesAcc(Tail(Tail(s)), <<>>)
  ELSE IF Head(s) \in {"\n", "\r"} THEN <<cur>> \o SplitLinesAcc(Tail(s), <<>>)
  ELSE SplitLinesAcc(Tail(s), Append(cur, Head(s)))

SplitLines(s) == SplitLinesAcc(s, <<>>)

\* number of bytes of the UTF-8 encoding of one character
Utf8Width(c) == IF c = "U+00E9" THEN 2 ELSE IF c = "U+20AC" THEN 3 ELSE 1

\* len(s): one for every character of the text
CharCount(c) == IF c \in {"U+00E9", "U+20AC"} THEN 1 ELSE Len(c)

RECURSIVE StrLen(_)
StrLen(s) ==
  IF s = <<>> THEN 0
  ELSE IF Len(s) = 1 THEN CharCount(s[1])
  ELSE StrLen(SubSeq(s, 1, Len(s) \div 2)) + StrLen(SubSeq(s, Len(s) \div 2 + 1, Len(s)))

RECURSIVE Utf8Len(_)
Utf8Len(s) ==
  IF s = <<>> THEN 0
  ELSE IF Len(s) = 1 THEN Utf8Width(s[1])
  ELSE Utf8Len(SubSeq(s, 1, Len(s) \div 2)) + Utf8Len(SubSeq(s, Len(s) \div 2 + 1, Len(s)))

(***************************************************************************)
(* pathlib.Path                                                            *)
(***************************************************************************)
RECURSIVE LeadingSlashes(_)
LeadingSlashes(s) ==
  IF s # <<>> /\ Head(s) = "/" THEN 1 + LeadingSlashes(Tail(s)) ELSE 0

\* Path(s): the root and the segments, empty and "." segments dropped
Path(s) ==
  [root  |-> IF LeadingSlashes(s) = 0 THEN <<>>
             ELSE IF LeadingSlashes(s) = 2 THEN <<"/", "/">> ELSE <<"/">>,
   parts |-> SelectSeq(Split(s, "/"), LAMBDA seg : seg # <<>> /\ seg # <<".">>)]

\* a / b : an operand with a root replaces what is left of it
PathJoin(a, b) ==
  IF b.root # <<>> THEN b ELSE [root |-> a.root, parts |-> a.parts \o b.parts]

\* path.parent
Parent(p) ==
  IF p.parts = <<>> THEN p
  ELSE [root |-> p.root, parts |-> SubSeq(p.parts, 1, Len(p.parts) - 1)]

\* str(path)
PathStr(p) ==
  IF p.parts = <<>> /\ p.root = <<>> THEN <<".">>
  ELSE p.root \o Join(p.parts, <<"/">>)

\* p and the directories above it that have a name
Prefixes(p) == {[root |-> p.root, parts |-> SubSeq(p.parts, 1, k)] : k \in 1..Len(p.parts)}

IsUnder(p, base) ==
  /\ p.root = base.root
  /\ Len(p.parts) >= Len(base.parts)
  /\ SubSeq(p.parts, 1, Len(base.parts)) = base.parts

(***************************************************************************)
(* The filesystem                                                          *)
(***************************************************************************)
IsFile(fs, p) == p \in DOMAIN fs.files

IsDir(fs, p) == p.parts = <<>> \/ p \in fs.dirs

\* path.exists()
Exists(fs, p) == IsFile(fs, p) \/ IsDir(fs, p)

\* path.mkdir(parents=True, exist_ok=True): raises, and makes nothing, when p
\* or a directory above it is a regular file
Mkdir(fs, p) ==
  IF IsFile(fs, p) THEN [fs |-> fs, raised |-> "FileExistsError"]
  ELSE IF \E q \in Prefixes(p) : IsFile(fs, q) THEN [fs |-> fs, raised |-> "NotADirectoryError"]
  ELSE [fs |-> [fs EXCEPT !.dirs = @ \cup Prefixes(p)], raised |-> None]

_ensure_parent_dirs(fs, path) == Mkdir(fs, Parent(path))

\* path.write_text(content, encoding="utf-8")
WriteText(fs, p, content) ==
  IF IsDir(fs, p) THEN [fs |-> fs, raised |-> "IsADirectoryError"]
  ELSE [fs |-> [fs EXCEPT !.files = (p :> content) @@ @], raised |-> None]

NoStatus == [tag |-> None]

\* f"[SKIPPED] {path} already exists"
SkippedStatus(p) == [tag |-> "SKIPPED", path |-> PathStr(p)]

\* f"[WROTE] {path} ({len(content)} bytes)"
WroteStatus(p, content) == [tag |-> "WROTE", path |-> PathStr(p), bytes |-> StrLen(content)]

\* _write_file with a slip: the overwrite flag is not looked at
_write_file_IgnoresOverwrite(fs, path, content, overwrite) ==
  LET made == _ensure_parent_dirs(fs, path)
  IN  IF made.raised # None THEN [fs |-> made.fs, raised |-> made.raised, status |-> NoStatus]
      ELSE LET written == WriteText(made.fs, path, content)
           IN  IF written.raised # None
               THEN [fs |-> written.fs, raised |-> written.raised, status |-> NoStatus]
               ELSE [fs |-> written.fs, raised |-> None, status |-> WroteStatus(path, content)]

_write_file(fs, path, content, overwrite) ==
  LET made == _ensure_parent_dirs(fs, path)
  IN  IF made.raised # None THEN [fs |-> made.fs, raised |-> made.raised, status |-> NoStatus]
      ELSE IF Exists(made.fs, path) /\ ~overwrite
           THEN [fs |-> made.fs, raised |-> None, status |-> SkippedStatus(path)]
      ELSE LET written == WriteText(made.fs, path, content)
           IN  IF written.raised # None
               THEN [fs |-> written.fs, raised |-> written.raised, status |-> NoStatus]
               ELSE [fs |-> written.fs, raised |-> None, status |-> WroteStatus(path, content)]

FS == [files |-> files, dirs |-> dirs]

\* the end of a tool call: the filesystem it leaves, what it returned or raised
Finish(name, a, r) ==
  /\ files' = r.fs.files
  /\ dirs' = r.fs.dirs
  /\ before' = FS
  /\ op' = name
  /\ args' = a
  /\ result' = [raised |-> r.raised, status |-> r.status]
  /\ calls' = calls + 1
  /\ UNCHANGED <<instances, loaded>>

(***************************************************************************)
(* FileWriterTool                                                          *)
(***************************************************************************)
FileWriterTool_run(fs, a) == _write_file(fs, Path(a.path), a.content, a.overwrite)

FileWriterPaths ==
  { <<"a">>, <<"s", "r", "c">>, <<".">>,
    <<"s", "r", "c", "/", "t", "e", "s", "t", "/", "j", "a", "v", "a", "/", "a", "/", "b", "/", "X", ".", "j", "a", "v", "a">> }

FileWriterContents == { <<>>, <<"x">>, <<"U+00E9", "U+20AC">> }

FileWriterArgs ==
  [path : FileWriterPaths, content : FileWriterContents, overwrite : BOOLEAN]

FileWriterRun ==
  /\ calls < MaxCalls
  /\ \E a \in FileWriterArgs : Finish("FileWriterTool", a, FileWriterTool_run(FS, a))

(***************************************************************************)
(* JavaCodegenTool                                                         *)
(***************************************************************************)
\* JavaCodegenArgs._check_src_type: the validator of the argument schema.  The
\* tool's args_schema line is commented out, so _run is never preceded by it.
_check_src_type(v) == IF v \notin {"main", "test"} THEN "ValueError" ELSE None

_normalize_package_to_path(base_package) == Replace(Strip(base_package), ".", "/")

\* f"src/{'test' if src_type=='test' else 'main'}/java"
SrcRoot(src_type) ==
  IF src_type = "test" THEN <<"s", "r", "c", "/", "t", "e", "s", "t", "/", "j", "a", "v", "a">>
  ELSE <<"s", "r", "c", "/", "m", "a", "i", "n", "/", "j", "a", "v", "a">>

\* full_dir / f"{class_name}.java"
JavaTargetDir(a) ==
  PathJoin(PathJoin(Path(a.base_dir), Path(SrcRoot(a.src_type))),
           Path(_normalize_package_to_path(a.base_package)))

JavaTargetPath(a) == PathJoin(JavaTargetDir(a), Path(a.class_name \o <<".", "j", "a", "v", "a">>))

Truthy(s) == s # None /\ s # <<>>

\* JavaLines with a slip: no blank line after the imports
JavaLines_NoImportSeparator(a) ==
  << <<"p", "a", "c", "k", "a", "g", "e", " ">> \o a.base_package \o <<";">>, <<>> >>
  \o [i \in 1..Len(a.imports) |-> <<"i", "m", "p", "o", "r", "t", " ">> \o a.imports[i] \o <<";">>]
  \o (IF Truthy(a.javadoc)
      THEN << <<"/", "*", "*">> >>
           \o [i \in 1..Len(SplitLines(a.javadoc)) |-> <<" ", "*", " ">> \o SplitLines(a.javadoc)[i]]
           \o << <<" ", "*", "/">> >>
      ELSE <<>>)
  \o a.annotations
  \o << <<"p", "u", "b", "l", "i", "c", " ", "c", "l", "a", "s", "s", " ">> \o a.class_name \o <<" ">> \o <<"{">> >>
  \o (IF Truthy(a.body)
      THEN [i \in 1..Len(SplitLines(a.body)) |-> <<" ", " ", " ", " ">> \o SplitLines(a.body)[i]]
      ELSE <<>>)
  \o << <<"}">> >>

\* JavaLines with a slip: the closing brace is added only after a non-empty body
JavaLines_BraceOnlyAfterBody(a) ==
  << <<"p", "a", "c", "k", "a", "g", "e", " ">> \o a.base_package \o <<";">>, <<>> >>
  \o [i \in 1..Len(a.imports) |-> <<"i", "m", "p", "o", "r", "t", " ">> \o a.imports[i] \o <<";">>]
  \o (IF a.imports # <<>> THEN << <<>> >> ELSE <<>>)
  \o (IF Truthy(a.javadoc)
      THEN << <<"/", "*", "*">> >>
           \o [i \in 1..Len(SplitLines(a.javadoc)) |-> <<" ", "*", " ">> \o SplitLines(a.javadoc)[i]]
           \o << <<" ", "*", "/">> >>
      ELSE <<>>)
  \o a.annotations
  \o << <<"p", "u", "b", "l", "i", "c", " ", "c", "l", "a", "s", "s", " ">> \o a.class_name \o <<" ">> \o <<"{">> >>
  \o (IF Truthy(a.body)
      THEN [i \in 1..Len(SplitLines(a.body)) |-> <<" ", " ", " ", " ">> \o SplitLines(a.body)[i]]
           \o << <<"}">> >>
      ELSE <<>>)

\* the list `lines` of _run before it is joined
JavaLines(a) ==
  LET package == << <<"p", "a", "c", "k", "a", "g", "e", " ">> \o a.base_package \o <<";">>, <<>> >>
      imps    == [i \in 1..Len(a.imports) |-> <<"i", "m", "p", "o", "r", "t", " ">> \o a.imports[i] \o <<";">>]
      impsep  == IF a.imports # <<>> THEN << <<>> >> ELSE <<>>
      doc     == IF Truthy(a.javadoc)
                 THEN << <<"/", "*", "*">> >>
                      \o [i \in 1..Len(SplitLines(a.javadoc)) |->
                            <<" ", "*", " ">> \o SplitLines(a.javadoc)[i]]
                      \o << <<" ", "*", "/">> >>
                 ELSE <<>>
      decl    == << <<"p", "u", "b", "l", "i", "c", " ", "c", "l", "a", "s", "s", " ">> \o a.class_name \o <<" ">> \o <<"{">> >>
      body    == IF Truthy(a.body)
                 THEN [i \in 1..Len(SplitLines(a.body)) |->
                         <<" ", " ", " ", " ">> \o SplitLines(a.body)[i]]
                 ELSE <<>>
  IN  package \o imps \o impsep \o doc \o a.annotations \o decl \o body \o << <<"}">> >>

\* "\n".join(lines) + "\n"
JavaContent(a) == Join(JavaLines(a), <<NL>>) \o <<NL>>

\* JavaCodegenTool._run with a slip: the file is written with overwrite=False
JavaCodegenTool_run_NoOverwrite(fs, a) ==
  LET made == Mkdir(fs, JavaTargetDir(a))
  IN  IF made.raised # None THEN [fs |-> made.fs, raised |-> made.raised, status |-> NoStatus]
      ELSE _write_file(made.fs, JavaTargetPath(a), JavaContent(a), FALSE)

JavaCodegenTool_run(fs, a) ==
  LET made == Mkdir(fs, JavaTargetDir(a))
  IN  IF made.raised # None THEN [fs |-> made.fs, raised |-> made.raised, status |-> NoStatus]
      ELSE _write_file(made.fs, JavaTargetPath(a), JavaContent(a), TRUE)

PkgAB == <<"a", ".", "b">>
PkgPadded == <<" ", "a", ".", "b", " ">>
PkgLeadingDot == <<".", "a">>
PkgExample == <<"c", "o", "m", ".", "e", "x", "a", "m", "p", "l", "e", ".", "q", "a">>
ClsX == <<"X">>
ClsSmoke == <<"S", "m", "o", "k", "e">>

BodyChars == {"{", "}", NL}

ImportNames == { <<"j", ".", "U">>, <<"k">> }

JavaArgs ==
  [base_package : {PkgPadded, PkgLeadingDot, PkgExample},
   class_name   : {ClsSmoke},
   src_type     : {"main", "test", "prod"},
   body         : SeqsUpTo(BodyChars, MaxBodyLen),
   imports      : SeqsUpTo(ImportNames, MaxImports),
   annotations  : { <<>>, << <<"@", "A">>, <<"@", "B">> >> },
   javadoc      : { None, <<"d", "\n", "e">> },
   base_dir     : { <<".">>, <<"o">> }]

\* the inputs of the runs that share a filesystem with FileWriterTool
JavaArgsShared ==
  [base_package : {PkgAB},
   class_name   : {ClsX},
   src_type     : {"main", "test"},
   body         : { <<>>, <<"x">> },
   imports      : { <<>> },
   annotations  : { <<>> },
   javadoc      : { None },
   base_dir     : { <<".">> }]

JavaCodegenRun ==
  /\ calls < MaxCalls
  /\ \E a \in JavaArgsShared : Finish("JavaCodegenTool", a, JavaCodegenTool_run(FS, a))

\* one run of the emitter in an empty directory, over the whole input set
JavaCodegenRender ==
  /\ op = None
  /\ \E a \in JavaArgs : Finish("JavaCodegenTool", a, JavaCodegenTool_run(FS, a))

(***************************************************************************)
(* PomXmlTool                                                              *)
(***************************************************************************)
TruthyStr(s) == s # None /\ s # ""

\* the fragment added to deps_xml for one dependency
DependencyXml(dep) ==
  LET optional    == IF dep.optional # None
                     THEN "\n      <optional>" \o dep.optional \o "</optional>" ELSE ""
      scope       == IF TruthyStr(dep.scope)
                     THEN "\n      <scope>" \o dep.scope \o "</scope>" ELSE ""
      version_tag == IF TruthyStr(dep.version)
                     THEN "\n      <version>" \o dep.version \o "</version>" ELSE ""
  IN  "\n        <dependency>\n        <groupId>" \o dep.groupId
      \o "</groupId>\n        <artifactId>" \o dep.artifactId \o "</artifactId>"
      \o version_tag \o scope \o optional \o "\n        </dependency>"

\* the fragment added to plugins_xml for one plugin
PluginXml(plg) ==
  LET ver    == IF TruthyStr(plg.version)
                THEN "\n        <version>" \o plg.version \o "</version>" ELSE ""
      config == IF TruthyStr(plg.configuration_xml)
                THEN "\n        " \o plg.configuration_xml ELSE ""
      execs  == IF TruthyStr(plg.executions_xml)
                THEN "\n        " \o plg.executions_xml ELSE ""
  IN  "\n        <plugin>\n            <groupId>" \o plg.groupId
      \o "</groupId>\n            <artifactId>" \o plg.artifactId \o "</artifactId>"
      \o ver \o config \o execs \o "\n        </plugin>"

\* the document of the f-string, cut at the places where text is inserted and
\* between the baseline entries
PomHeader(a) ==
  "<project xmlns=\"http://maven.apache.org/POM/4.0.0\"\n            xmlns:xsi=\"http://www.w3.org/2001/XMLSchema-instance\"\n            xsi:schemaLocation=\"http://maven.apache.org/POM/4.0.0 https://maven.apache.org/xsd/maven-4.0.0.xsd\">\n            <modelVersion>4.0.0</modelVersion>\n\n            <groupId>"
  \o a.groupId \o "</groupId>\n            <artifactId>"
  \o a.artifactId \o "</artifactId>\n            <version>"
  \o a.version \o "</version>\n            <packaging>"
  \o a.packaging \o "</packaging>\n\n            <properties>\n                <maven.compiler.source>"
  \o a.java_version \o "</maven.compiler.source>\n                <maven.compiler.target>"
  \o a.java_version \o "</maven.compiler.target>\n                <project.build.sourceEncoding>UTF-8</project.build.sourceEncoding>\n                <junit.jupiter.version>5.10.2</junit.jupiter.version>\n                <assertj.version>3.25.3</assertj.version>\n                <mockito.version>5.12.0</mockito.version>\n            </properties>\n\n            <dependencies>"

BaselineComment ==
  "\n                <!-- Baseline testing stack -->\n"

BaselineJunit ==
  "                <dependency>\n                <groupId>org.junit.jupiter</groupId>\n                <artifactId>junit-jupiter</artifactId>\n                <version>${junit.jupiter.version}</version>\n                <scope>test</scope>\n                </dependency>\n"

BaselineAssertj ==
  "                <dependency>\n                <groupId>org.assertj</groupId>\n                <artifactId>assertj-core</artifactId>\n                <version>${assertj.version}</version>\n                <scope>test</scope>\n                </dependency>\n"

BaselineMockito ==
  "                <dependency>\n                <groupId>org.mockito</groupId>\n                <artifactId>mockito-core</artifactId>\n                <version>${mockito.version}</version>\n                <scope>test</scope>\n                </dependency>\n"

DependenciesClose ==
  "            </dependencies>\n\n            <build>\n                <plugins>"

BaselineSurefire ==
  "\n                <plugin>\n                    <groupId>org.apache.maven.plugins</groupId>\n                    <artifactId>maven-surefire-plugin</artifactId>\n                    <version>3.2.5</version>\n                    <configuration>\n                    <useModulePath>false</useModulePath>\n                    <includes>\n                        <include>**/*Test.java</include>\n                    </includes>\n                    </configuration>\n                </plugin>\n"

BaselineJacoco ==
  "                <plugin>\n                    <groupId>org.jacoco</groupId>\n                    <artifactId>jacoco-maven-plugin</artifactId>\n                    <version>0.8.11</version>\n                    <executions>\n                    <execution>\n                        <goals>\n                        <goal>prepare-agent</goal>\n                        </goals>\n                    </execution>\n                    <execution>\n                        <id>report</id>\n                        <phase>test</phase>\n                        <goals>\n                        <goal>report</goal>\n                        </goals>\n                    </execution>\n                    </executions>\n                </plugin>\n"

PomTail ==
  "                </plugins>\n            </build>\n            </project>\n"

\* xml = f"""<project ... </project>""".strip() + "\n"
PomDocument(a, deps_xml, plugins_xml) ==
  <<PomHeader(a)>> \o deps_xml
  \o <<BaselineComment, BaselineJunit, BaselineAssertj, BaselineMockito, DependenciesClose>>
  \o plugins_xml \o <<BaselineSurefire, BaselineJacoco, PomTail>>

\* the inner loop: plugins_xml is built afresh from the whole plugin list
PluginsXml(plugins) == [i \in 1..Len(plugins) |-> PluginXml(plugins[i])]

\* PomLoopBody with a slip: plugins_xml is not emptied before the plugin loop
PomLoopBody_KeepsPlugins(a, st, dep) ==
  LET deps_xml    == Append(st.deps_xml, DependencyXml(dep))
      plugins_xml == st.plugins_xml \o PluginsXml(a.plugins)
  IN  [deps_xml |-> deps_xml, plugins_xml |-> plugins_xml,
       bound |-> TRUE, xml |-> PomDocument(a, deps_xml, plugins_xml)]


\* one pass of `for dep in (dependencies or [])`: the plugin loop and the
\* assignment of xml are part of its body
PomLoopBody(a, st, dep) ==
  LET deps_xml    == Append(st.deps_xml, DependencyXml(dep))
      plugins_xml == PluginsXml(a.plugins)
  IN  [deps_xml |-> deps_xml, plugins_xml |-> plugins_xml,
       bound |-> TRUE, xml |-> PomDocument(a, deps_xml, plugins_xml)]

RECURSIVE PomLoop(_, _, _)
PomLoop(a, k, st) ==
  IF k > Len(a.dependencies) THEN st
  ELSE PomLoop(a, k + 1, PomLoopBody(a, st, a.dependencies[k]))

\* the locals before the loop: deps_xml = "", plugins_xml and xml not yet bound
PomLocals == [deps_xml |-> <<>>, plugins_xml |-> <<>>, bound |-> FALSE, xml |-> <<>>]

PomPath(a) == PathJoin(Path(a.base_dir), Path(<<"p", "o", "m", ".", "x", "m", "l">>))

PomXmlTool_run(fs, a) ==
  LET st == PomLoop(a, 1, PomLocals)
  IN  IF ~st.bound THEN [fs |-> fs, raised |-> "UnboundLocalError", status |-> NoStatus]
      ELSE _write_file(fs, PomPath(a), st.xml, TRUE)

DepPool ==
  { [groupId |-> "org.x", artifactId |-> "lib1", version |-> "1.0", scope |-> None,
     optional |-> None],
    [groupId |-> "org.y", artifactId |-> "lib2", version |-> None, scope |-> "test",
     optional |-> "false"] }

PluginPool ==
  { [groupId |-> "org.p", artifactId |-> "plug1", version |-> "2.0",
     configuration_xml |-> None, executions_xml |-> None],
    [groupId |-> "org.q", artifactId |-> "plug2", version |-> None,
     configuration_xml |-> "<configuration/>", executions_xml |-> "<executions/>"] }

PomArgs ==
  [base_dir     : { <<".">>, <<"o">> },
   groupId      : {"com.example"},
   artifactId   : {"qa-testkit", "kit"},
   version      : {"0.1.0"},
   java_version : {"17"},
   packaging    : {"jar"},
   dependencies : SeqsUpTo(DepPool, MaxDeps),
   plugins      : SeqsUpTo(PluginPool, MaxPlugins)]

\* one run of the emitter in an empty directory
PomXmlRun ==
  /\ op = None
  /\ \E a \in PomArgs : Finish("PomXmlTool", a, PomXmlTool_run(FS, a))

(***************************************************************************)
(* Tool registry                                                           *)
(***************************************************************************)
\* the dict TOOLS_REGISTRY in insertion order: name, class
TOOLS_REGISTRY ==
  << <<"FileWriterTool", "FileWriterTool">>,
     <<"RepoScaffolderTool", "RepoScaffolderTool">>,
     <<"PomXmlTool", "PomXmlTool">>,
     <<"JavaCodegenTool", "JavaCodegenTool">>,
     <<"ReadmeWriterTool", "ReadmeWriterTool">>,
     <<"H2RunnerTool", "H2RunnerTool">>,
     <<"JDBCExecutorTool", "JDBCExecutorTool">>,
     <<"MongoEmbedTool", "MongoEmbedTool">>,
     <<"TestcontainersTool", "TestcontainersTool">>,
     <<"KafkaMockTool", "KafkaMockTool">>,
     <<"OpenAPISchemaTool", "OpenAPISchemaTool">>,
     <<"FakerTool", "FakerTool">>,
     <<"KafkaMessagingScaffoldTool", "KafkaMessagingScaffoldTool">>,
     <<"EmsMessagingScaffoldTool", "EmsMessagingScaffoldTool">> >>

\* list(TOOLS_REGISTRY): the keys in insertion order
RegistryNames == [i \in 1..Len(TOOLS_REGISTRY) |-> TOOLS_REGISTRY[i][1]]

\* TOOLS_REGISTRY.get(name)
RegistryGet(name) ==
  IF \E i \in 1..Len(TOOLS_REGISTRY) : TOOLS_REGISTRY[i][1] = name
  THEN TOOLS_REGISTRY[CHOOSE i \in 1..Len(TOOLS_REGISTRY) : TOOLS_REGISTRY[i][1] = name][2]
  ELSE None

\* the message with a slip: the name registered last is left out
UnknownToolMessage_DropsLast(name) ==
  [text |-> "Unknown tool", name |-> name,
   known |-> SubSeq(RegistryNames, 1, Len(RegistryNames) - 1)]

\* the message of the KeyError: f"Unknown tool '{name}'. Known tools: {list(TOOLS_REGISTRY)}"
UnknownToolMessage(name) == [text |-> "Unknown tool", name |-> name, known |-> RegistryNames]

\* cls(): an object that did not exist before the call
NewInstance(cls, made) == [id |-> Len(made) + 1, cls |-> cls]

get_tool_by_name(name, made) ==
  LET cls == RegistryGet(name)
  IN  IF cls = None
      THEN [raised |-> "KeyError", message |-> UnknownToolMessage(name), value |-> None,
            made |-> made]
      ELSE [raised |-> None, message |-> None, value |-> NewInstance(cls, made),
            made |-> Append(made, NewInstance(cls, made))]

LookupNames ==
  {RegistryNames[i] : i \in 1..Len(RegistryNames)} \cup {"", "UnknownTool", "filewritertool"}

GetToolByName ==
  /\ calls < MaxCalls
  /\ \E name \in LookupNames :
       LET r == get_tool_by_name(name, instances)
       IN  /\ op' = "get_tool_by_name"
           /\ args' = [name |-> name]
           /\ result' = [raised |-> r.raised, message |-> r.message, value |-> r.value]
           /\ instances' = r.made
           /\ calls' = calls + 1
           /\ before' = FS
           /\ UNCHANGED <<files, dirs, loaded>>

(***************************************************************************)
(* crew.py: _materialize_tools                                             *)
(***************************************************************************)
\* print(f"[WARN] Tool '{name}' not found in registry; skipping. Known: {list(TOOLS_REGISTRY)}")
ToolWarning(name) == [text |-> "WARN", name |-> name, known |-> RegistryNames]

\* one pass of `for name in (tool_names or [])`
MaterializeStep(st, name) ==
  IF name = "" THEN st
  ELSE LET r == get_tool_by_name(name, st.made)
       IN  IF r.raised = "KeyError"
           THEN [st EXCEPT !.warnings = Append(@, ToolWarning(name))]
           ELSE [st EXCEPT !.tools = Append(@, r.value), !.made = r.made]

\* the loop with a slip: the KeyError of an unknown name is not caught
RECURSIVE MaterializeLoop_NoExcept(_, _, _)
MaterializeLoop_NoExcept(names, k, st) ==
  IF k > Len(names) \/ st.raised # None THEN st
  ELSE IF names[k] # "" /\ get_tool_by_name(names[k], st.made).raised = "KeyError"
       THEN [st EXCEPT !.raised = "KeyError", !.tools = <<>>]
  ELSE MaterializeLoop_NoExcept(names, k + 1, MaterializeStep(st, names[k]))

RECURSIVE MaterializeLoop(_, _, _)
MaterializeLoop(names, k, st) ==
  IF k > Len(names) THEN st
  ELSE MaterializeLoop(names, k + 1, MaterializeStep(st, names[k]))

_materialize_tools(tool_names, made) ==
  MaterializeLoop(tool_names, 1,
                  [tools |-> <<>>, warnings |-> <<>>, made |-> made, raised |-> None])

DeclaredNames == {"FileWriterTool", "PomXmlTool", "JavaCodegenTool", "", "UnknownTool"}

\* one call of the adapter in a fresh process
MaterializeTools ==
  /\ op = None
  /\ \E names \in SeqsUpTo(DeclaredNames, MaxNames) :
       LET r == _materialize_tools(names, instances)
       IN  /\ op' = "_materialize_tools"
           /\ args' = [tool_names |-> names]
           /\ result' = [raised |-> r.raised, value |-> r.tools, warnings |-> r.warnings]
           /\ instances' = r.made
           /\ calls' = calls + 1
           /\ before' = FS
           /\ UNCHANGED <<files, dirs, loaded>>

(***************************************************************************)
(* RepoScaffolderTool                                                      *)
(***************************************************************************)
DEFAULT_SCAFFOLD ==
  << <<".", "e", "d", "i", "t", "o", "r", "c", "o", "n", "f", "i", "g">>,
     <<".", "g", "i", "t", "a", "t", "t", "r", "i", "b", "u", "t", "e", "s">>,
     <<".", "g", "i", "t", "i", "g", "n", "o", "r", "e">>,
     <<"R", "E", "A", "D", "M", "E", ".", "m", "d">>,
     <<"d", "o", "c", "s", "/">>,
     <<"d", "o", "c", "s", "/", "U", "S", "A", "G", "E", ".", "m", "d">>,
     <<"d", "o", "c", "s", "/", "A", "R", "C", "H", "I", "T", "E", "C", "T", "U", "R", "E", ".", "m", "d">>,
     <<"p", "o", "m", ".", "x", "m", "l">>,
     <<"s", "r", "c", "/", "m", "a", "i", "n", "/", "j", "a", "v", "a", "/">>,
     <<"s", "r", "c", "/", "t", "e", "s", "t", "/", "j", "a", "v", "a", "/">>,
     <<"s", "r", "c", "/", "m", "a", "i", "n", "/", "r", "e", "s", "o", "u", "r", "c", "e", "s", "/">>,
     <<"s", "r", "c", "/", "t", "e", "s", "t", "/", "r", "e", "s", "o", "u", "r", "c", "e", "s", "/">> >>

\* list(dict.fromkeys(xs)): the first occurrence of every element, in order
RECURSIVE DictFromKeys(_, _)
DictFromKeys(xs, seen) ==
  IF xs = <<>> THEN seen
  ELSE DictFromKeys(Tail(xs),
                    IF \E i \in 1..Len(seen) : seen[i] = Head(xs) THEN seen
                    ELSE Append(seen, Head(xs)))

\* the list `paths` that the loop goes through
ScaffoldPaths(a) ==
  IF a.include_defaults THEN DictFromKeys(DEFAULT_SCAFFOLD \o a.extra_paths, <<>>)
  ELSE a.extra_paths

\* p.endswith("/")
EndsWithSlash(p) == p # <<>> /\ p[Len(p)] = "/"

\* ScaffoldStep with a slip: a file is written whether or not it exists
ScaffoldStep_Truncates(base, st, p) ==
  LET target == PathJoin(base, Path(p))
  IN  IF EndsWithSlash(p)
      THEN LET made == Mkdir(st.fs, target)
           IN  IF made.raised # None THEN [st EXCEPT !.raised = made.raised]
               ELSE [st EXCEPT !.fs = made.fs,
                               !.created = Append(@, [tag |-> "DIR", path |-> PathStr(target)])]
      ELSE LET made == _ensure_parent_dirs(st.fs, target)
           IN  IF made.raised # None THEN [st EXCEPT !.raised = made.raised]
               ELSE IF ~IsDir(made.fs, target)
                    THEN [st EXCEPT !.fs = WriteText(made.fs, target, <<>>).fs,
                                    !.created = Append(@, [tag |-> "FILE",
                                                           path |-> PathStr(target)])]
               ELSE [st EXCEPT !.fs = made.fs,
                               !.created = Append(@, [tag |-> "SKIP", path |-> PathStr(target)])]

\* one pass of `for p in paths`; st.created is the list of report lines
ScaffoldStep(base, st, p) ==
  LET target == PathJoin(base, Path(p))
  IN  IF EndsWithSlash(p)
      THEN LET made == Mkdir(st.fs, target)
           IN  IF made.raised # None THEN [st EXCEPT !.raised = made.raised]
               ELSE [st EXCEPT !.fs = made.fs,
                               !.created = Append(@, [tag |-> "DIR", path |-> PathStr(target)])]
      ELSE LET made == _ensure_parent_dirs(st.fs, target)
           IN  IF made.raised # None THEN [st EXCEPT !.raised = made.raised]
               ELSE IF ~Exists(made.fs, target)
                    THEN [st EXCEPT !.fs = WriteText(made.fs, target, <<>>).fs,
                                    !.created = Append(@, [tag |-> "FILE",
                                                           path |-> PathStr(target)])]
               ELSE [st EXCEPT !.fs = made.fs,
                               !.created = Append(@, [tag |-> "SKIP", path |-> PathStr(target)])]

\* the loop stops at the first pass that raises; what was made before stays
RECURSIVE ScaffoldLoop(_, _, _, _)
ScaffoldLoop(base, paths, k, st) ==
  IF k > Len(paths) \/ st.raised # None THEN st
  ELSE ScaffoldLoop(base, paths, k + 1, ScaffoldStep(base, st, paths[k]))

\* "\n".join(created)
ScaffoldReport(created) == [tag |-> "REPORT", lines |-> created]

RepoScaffolderTool_run(fs, a) ==
  LET base == Path(a.base_dir)
      made == Mkdir(fs, base)
  IN  IF made.raised # None THEN [fs |-> made.fs, raised |-> made.raised, status |-> NoStatus]
      ELSE LET st == ScaffoldLoop(base, ScaffoldPaths(a), 1,
                                  [fs |-> made.fs, created |-> <<>>, raised |-> None])
           IN  IF st.raised # None THEN [fs |-> st.fs, raised |-> st.raised, status |-> NoStatus]
               ELSE [fs |-> st.fs, raised |-> None, status |-> ScaffoldReport(st.created)]

PathA == <<"a">>
PathDirD == <<"d", "/">>
PathDF == <<"d", "/", "f">>
PathReadme == <<"R", "E", "A", "D", "M", "E", ".", "m", "d">>
PathDocs == <<"d", "o", "c", "s">>

ExtraPathLists ==
  { <<>>, <<PathA>>, <<PathA, PathA>>, <<PathDirD, PathDF>>, <<PathReadme, PathDirD, PathDirD>> }

ScaffoldArgs ==
  [base_dir : { <<".">> }, include_defaults : BOOLEAN, extra_paths : ExtraPathLists]

RepoScaffolderRun ==
  /\ calls < MaxCalls
  /\ \E a \in ScaffoldArgs : Finish("RepoScaffolderTool", a, RepoScaffolderTool_run(FS, a))

\* the files written by FileWriterTool where the scaffold emitter works
ScaffoldFileWrites ==
  [path : {PathA, PathReadme, PathDocs, <<"d">>}, content : { <<"x">> }, overwrite : {TRUE}]

FileWriterBeforeScaffold ==
  /\ calls < MaxCalls
  /\ \E a \in ScaffoldFileWrites : Finish("FileWriterTool", a, FileWriterTool_run(FS, a))

(***************************************************************************)
(* KafkaMessagingScaffoldTool and EmsMessagingScaffoldTool                 *)
(*                                                                         *)
(* A body is the text of the f-string: one piece for every stretch of      *)
(* literal text of a line, one piece for every interpolated parameter and  *)
(* NL between the lines.  A parameter is a text without line breaks.       *)
(***************************************************************************)
\* _read_template: the stripped text of the template file, "" without one
_read_template(templates, name) ==
  IF name \in DOMAIN templates THEN Strip(templates[name]) ELSE <<>>

kafka_config_body(a) ==
  << "public final class KafkaConfig {", NL,
     "            private KafkaConfig() {}", NL,
     NL,
     "            public static java.util.Properties producerProps() {", NL,
     "                java.util.Properties p = new java.util.Properties();", NL,
     "                p.put(\"bootstrap.servers\", \"", a.bootstrap_servers, "\");", NL,
     "                p.put(\"client.id\", \"", a.client_id, "-producer\");", NL,
     "                p.put(\"acks\", \"", a.acks, "\");", NL,
     "                p.put(\"key.serializer\", \"org.apache.kafka.common.serialization.StringSerializer\");", NL,
     "                p.put(\"value.serializer\", \"org.apache.kafka.common.serialization.StringSerializer\");", NL,
     "                return p;", NL,
     "            }", NL,
     NL,
     "            public static java.util.Properties consumerProps() {", NL,
     "                java.util.Properties p = new java.util.Properties();", NL,
     "                p.put(\"bootstrap.servers\", \"", a.bootstrap_servers, "\");", NL,
     "                p.put(\"group.id\", \"", a.consumer_group, "\");", NL,
     "                p.put(\"auto.offset.reset\", \"", a.auto_offset_reset, "\");", NL,
     "                p.put(\"key.deserializer\", \"org.apache.kafka.common.serialization.StringDeserializer\");", NL,
     "                p.put(\"value.deserializer\", \"org.apache.kafka.common.serialization.StringDeserializer\");", NL,
     "                return p;", NL,
     "            }", NL,
     "            }" >>

kafka_producer_body(a) ==
  << "private final org.apache.kafka.clients.producer.KafkaProducer<String, String> producer;", NL,
     "            private final String topic;", NL,
     NL,
     "            public KafkaProducerClient(java.util.Properties props, String topic) {", NL,
     "                this.producer = new org.apache.kafka.clients.producer.KafkaProducer<>(props);", NL,
     "                this.topic = topic;", NL,
     "            }", NL,
     NL,
     "            public void send(String key, String jsonValue) {", NL,
     "                producer.send(new org.apache.kafka.clients.producer.ProducerRecord<>(topic, key, jsonValue));", NL,
     "                producer.flush();", NL,
     "            }", NL,
     NL,
     "            @Override public void close() { producer.close(); }" >>

kafka_consumer_body(a) ==
  << "private final org.apache.kafka.clients.consumer.KafkaConsumer<String, String> consumer;", NL,
     NL,
     "            public KafkaConsumerClient(java.util.Properties props, String topic) {", NL,
     "                this.consumer = new org.apache.kafka.clients.consumer.KafkaConsumer<>(props);", NL,
     "                this.consumer.subscribe(java.util.Collections.singletonList(topic));", NL,
     "            }", NL,
     NL,
     "            public org.apache.kafka.clients.consumer.ConsumerRecords<String, String> pollOnce(java.time.Duration timeout) {", NL,
     "                return consumer.poll(timeout);", NL,
     "            }", NL,
     NL,
     "            @Override public void close() { consumer.close(); }" >>

kafka_prod_test_body(a) ==
  << "@org.junit.jupiter.api.Test", NL,
     "            void mock_producer_sends_records() {", NL,
     "                org.apache.kafka.clients.producer.MockProducer<String, String> producer =", NL,
     "                    new org.apache.kafka.clients.producer.MockProducer<>(true, null, null);", NL,
     "                producer.send(new org.apache.kafka.clients.producer.ProducerRecord<>(\"", a.topic, "\", \"key\", \"value\"));", NL,
     "                producer.completeNext();", NL,
     "                org.assertj.core.api.Assertions.assertThat(producer.history()).hasSize(1);", NL,
     "            }" >>

kafka_cons_test_body(a) ==
  << "@org.junit.jupiter.api.Test", NL,
     "            void mock_consumer_reads_records() {", NL,
     "                org.apache.kafka.clients.consumer.MockConsumer<String, String> consumer =", NL,
     "                    new org.apache.kafka.clients.consumer.MockConsumer<>(org.apache.kafka.clients.consumer.OffsetResetStrategy.EARLIEST);", NL,
     "                java.util.Map<org.apache.kafka.common.TopicPartition, Long> startOffsets = new java.util.HashMap<>();", NL,
     "                org.apache.kafka.common.TopicPartition tp = new org.apache.kafka.common.TopicPartition(\"", a.topic, "\", 0);", NL,
     "                startOffsets.put(tp, 0L);", NL,
     "                consumer.assign(java.util.Collections.singletonList(tp));", NL,
     "                consumer.updateBeginningOffsets(startOffsets);", NL,
     "                consumer.addRecord(new org.apache.kafka.clients.consumer.ConsumerRecord<>(\"", a.topic, "\", 0, 0L, \"k\", \"v\"));", NL,
     "                org.apache.kafka.clients.consumer.ConsumerRecords<String, String> polled = consumer.poll(java.time.Duration.ofMillis(10));", NL,
     "                org.assertj.core.api.Assertions.assertThat(polled.count()).isEqualTo(1);", NL,
     "            }" >>

\* the JavaCodegenTool calls of KafkaMessagingScaffoldTool._run, in the order of the code
KafkaEmissions(a) ==
  <<
     [base_package |-> a.base_package,
      class_name   |-> <<"K", "a", "f", "k", "a", "C", "o", "n", "f", "i", "g">>,
      src_type     |-> "main",
      body         |-> kafka_config_body(a),
      imports      |-> << <<"java.util.Properties">>, <<"org.apache.kafka.common.serialization.*">> >>,
      javadoc      |-> <<"Auto-generated Kafka configuration.">>,
      annotations  |-> <<>>,
      base_dir     |-> a.base_dir],
     [base_package |-> a.base_package \o <<".", "m", "e", "s", "s", "a", "g", "i", "n", "g", ".", "k", "a", "f", "k", "a">>,
      class_name   |-> <<"K", "a", "f", "k", "a", "P", "r", "o", "d", "u", "c", "e", "r", "C", "l", "i", "e", "n", "t">>,
      src_type     |-> "main",
      body         |-> kafka_producer_body(a),
      imports      |-> << <<"java.util.Properties">>, <<"org.apache.kafka.clients.producer.KafkaProducer">>, <<"org.apache.kafka.clients.producer.ProducerRecord">> >>,
      javadoc      |-> <<"Auto-generated Kafka producer client.">>,
      annotations  |-> <<>>,
      base_dir     |-> a.base_dir],
     [base_package |-> a.base_package \o <<".", "m", "e", "s", "s", "a", "g", "i", "n", "g", ".", "k", "a", "f", "k", "a">>,
      class_name   |-> <<"K", "a", "f", "k", "a", "C", "o", "n", "s", "u", "m", "e", "r", "C", "l", "i", "e", "n", "t">>,
      src_type     |-> "main",
      body         |-> kafka_consumer_body(a),
      imports      |-> << <<"java.util.Collections">>, <<"java.time.Duration">>, <<"org.apache.kafka.clients.consumer.KafkaConsumer">>, <<"org.apache.kafka.clients.consumer.ConsumerRecords">> >>,
      javadoc      |-> <<"Auto-generated Kafka consumer client.">>,
      annotations  |-> <<>>,
      base_dir     |-> a.base_dir],
     [base_package |-> a.base_package \o <<".", "m", "e", "s", "s", "a", "g", "i", "n", "g", ".", "k", "a", "f", "k", "a">>,
      class_name   |-> <<"K", "a", "f", "k", "a", "P", "r", "o", "d", "u", "c", "e", "r", "T", "e", "s", "t">>,
      src_type     |-> "test",
      body         |-> kafka_prod_test_body(a),
      imports      |-> << <<"org.junit.jupiter.api.*">>, <<"org.assertj.core.api.Assertions">>, <<"org.apache.kafka.clients.producer.*">> >>,
      javadoc      |-> <<"Auto-generated unit test for Kafka producer using MockProducer.">>,
      annotations  |-> <<>>,
      base_dir     |-> a.base_dir],
     [base_package |-> a.base_package \o <<".", "m", "e", "s", "s", "a", "g", "i", "n", "g", ".", "k", "a", "f", "k", "a">>,
      class_name   |-> <<"K", "a", "f", "k", "a", "C", "o", "n", "s", "u", "m", "e", "r", "T", "e", "s", "t">>,
      src_type     |-> "test",
      body         |-> kafka_cons_test_body(a),
      imports      |-> << <<"java.util.*">>, <<"java.time.Duration">>, <<"org.junit.jupiter.api.*">>, <<"org.assertj.core.api.Assertions">>, <<"org.apache.kafka.common.TopicPartition">>, <<"org.apache.kafka.clients.consumer.*">> >>,
      javadoc      |-> <<"Auto-generated unit test for Kafka consumer using MockConsumer.">>,
      annotations  |-> <<>>,
      base_dir     |-> a.base_dir]
  >>

ems_config_body(a) ==
  << "public final class EmsConfig {", NL,
     "            private EmsConfig() {}", NL,
     NL,
     "            public static javax.jms.ConnectionFactory jndiConnectionFactory(String providerUrl, String factoryJndi) throws Exception {", NL,
     "                java.util.Hashtable<String,String> env = new java.util.Hashtable<>();", NL,
     "                env.put(javax.naming.Context.INITIAL_CONTEXT_FACTORY, \"", a.jndi_initial_ctx, "\");", NL,
     "                env.put(javax.naming.Context.PROVIDER_URL, providerUrl);", NL,
     "                javax.naming.Context ctx = new javax.naming.InitialContext(env);", NL,
     "                return (javax.jms.ConnectionFactory) ctx.lookup(factoryJndi);", NL,
     "            }", NL,
     NL,
     "            public static javax.jms.ConnectionFactory directConnectionFactory(String serverUrl) throws Exception {", NL,
     "                return (javax.jms.ConnectionFactory) Class", NL,
     "                    .forName(\"com.tibco.tibjms.TibjmsConnectionFactory\")", NL,
     "                    .getConstructor(String.class)", NL,
     "                    .newInstance(serverUrl);", NL,
     "            }", NL,
     "            }" >>

ems_producer_body(a) ==
  << "private final javax.jms.Connection connection;", NL,
     "            private final javax.jms.Session session;", NL,
     "            private final javax.jms.MessageProducer producer;", NL,
     NL,
     "            public EmsProducer(javax.jms.ConnectionFactory cf, String queueName, String user, String pass) throws javax.jms.JMSException {", NL,
     "                this.connection = (user != null) ? cf.createConnection(user, pass) : cf.createConnection();", NL,
     "                this.connection.start();", NL,
     "                this.session = connection.createSession(false, javax.jms.Session.AUTO_ACKNOWLEDGE);", NL,
     "                javax.jms.Queue q = session.createQueue(queueName);", NL,
     "                this.producer = session.createProducer(q);", NL,
     "            }", NL,
     NL,
     "            public void sendText(String text) throws javax.jms.JMSException {", NL,
     "                javax.jms.TextMessage msg = session.createTextMessage(text);", NL,
     "                producer.send(msg);", NL,
     "            }", NL,
     NL,
     "            @Override public void close() throws javax.jms.JMSException {", NL,
     "                try { producer.close(); } finally {", NL,
     "                    try { session.close(); } finally { connection.close(); }", NL,
     "                }", NL,
     "            }" >>

ems_consumer_body(a) ==
  << "private final javax.jms.Connection connection;", NL,
     "            private final javax.jms.Session session;", NL,
     "            private final javax.jms.MessageConsumer consumer;", NL,
     NL,
     "            public EmsConsumer(javax.jms.ConnectionFactory cf, String queueName, String user, String pass) throws javax.jms.JMSException {", NL,
     "                this.connection = (user != null) ? cf.createConnection(user, pass) : cf.createConnection();", NL,
     "                this.connection.start();", NL,
     "                this.session = connection.createSession(false, javax.jms.Session.AUTO_ACKNOWLEDGE);", NL,
     "                javax.jms.Queue q = session.createQueue(queueName);", NL,
     "                this.consumer = session.createConsumer(q);", NL,
     "            }", NL,
     NL,
     "            public String receiveText(long timeoutMillis) throws javax.jms.JMSException {", NL,
     "                javax.jms.Message m = consumer.receive(timeoutMillis);", NL,
     "                if (m == null) return null;", NL,
     "                if (m instanceof javax.jms.TextMessage) return ((javax.jms.TextMessage)m).getText();", NL,
     "                throw new javax.jms.MessageFormatException(\"Expected TextMessage\");", NL,
     "            }", NL,
     NL,
     "            @Override public void close() throws javax.jms.JMSException {", NL,
     "                try { consumer.close(); } finally {", NL,
     "                    try { session.close(); } finally { connection.close(); }", NL,
     "                }", NL,
     "            }" >>

\* the JavaCodegenTool calls of EmsMessagingScaffoldTool._run, in the order of the code
EmsEmissions(a) ==
  <<
     [base_package |-> a.base_package \o <<".", "m", "e", "s", "s", "a", "g", "i", "n", "g", ".", "e", "m", "s">>,
      class_name   |-> <<"E", "m", "s", "C", "o", "n", "f", "i", "g">>,
      src_type     |-> "main",
      body         |-> ems_config_body(a),
      imports      |-> << <<"javax.jms.*">>, <<"javax.naming.*">>, <<"java.util.Hashtable">> >>,
      javadoc      |-> <<"Auto-generated EMS/JMS configuration helpers (JNDI/direct).">>,
      annotations  |-> <<>>,
      base_dir     |-> a.base_dir],
     [base_package |-> a.base_package \o <<".", "m", "e", "s", "s", "a", "g", "i", "n", "g", ".", "e", "m", "s">>,
      class_name   |-> <<"E", "m", "s", "P", "r", "o", "d", "u", "c", "e", "r">>,
      src_type     |-> "main",
      body         |-> ems_producer_body(a),
      imports      |-> << <<"javax.jms.*">> >>,
      javadoc      |-> <<"Auto-generated EMS producer wrapper.">>,
      annotations  |-> <<>>,
      base_dir     |-> a.base_dir],
     [base_package |-> a.base_package \o <<".", "m", "e", "s", "s", "a", "g", "i", "n", "g", ".", "e", "m", "s">>,
      class_name   |-> <<"E", "m", "s", "C", "o", "n", "s", "u", "m", "e", "r">>,
      src_type     |-> "main",
      body         |-> ems_consumer_body(a),
      imports      |-> << <<"javax.jms.*">> >>,
      javadoc      |-> <<"Auto-generated EMS consumer wrapper.">>,
      annotations  |-> <<>>,
      base_dir     |-> a.base_dir],
     [base_package |-> a.base_package \o <<".", "m", "e", "s", "s", "a", "g", "i", "n", "g", ".", "e", "m", "s">>,
      class_name   |-> <<"E", "m", "s", "P", "r", "o", "d", "u", "c", "e", "r", "T", "e", "s", "t">>,
      src_type     |-> "test",
      body         |-> _read_template(a.templates, "PRODUCER_TEST_BODY.j2"),
      imports      |-> << <<"org.junit.jupiter.api.*">>, <<"org.mockito.Mockito">>, <<"javax.jms.*">> >>,
      javadoc      |-> <<"Auto-generated Mockito unit test for EMS producer.">>,
      annotations  |-> <<>>,
      base_dir     |-> a.base_dir],
     [base_package |-> a.base_package \o <<".", "m", "e", "s", "s", "a", "g", "i", "n", "g", ".", "e", "m", "s">>,
      class_name   |-> <<"E", "m", "s", "C", "o", "n", "s", "u", "m", "e", "r", "T", "e", "s", "t">>,
      src_type     |-> "test",
      body         |-> _read_template(a.templates, "CONSUMER_TEST_BODY.j2"),
      imports      |-> << <<"org.junit.jupiter.api.*">>, <<"org.assertj.core.api.Assertions">>, <<"org.mockito.Mockito">>, <<"javax.jms.*">> >>,
      javadoc      |-> <<"Auto-generated Mockito unit test for EMS consumer.">>,
      annotations  |-> <<>>,
      base_dir     |-> a.base_dir]
  >>

\* "\n".join(created)
MessagingReport(created) == [tag |-> "REPORT", lines |-> created]

\* EmitAll with a slip: a failed emission is passed over and the rest is emitted
RECURSIVE EmitAll_KeepsGoing(_, _, _)
EmitAll_KeepsGoing(fs, emissions, created) ==
  IF emissions = <<>>
  THEN [fs |-> fs, raised |-> None, status |-> MessagingReport(created)]
  ELSE LET r    == JavaCodegenTool_run(fs, Head(emissions))
           rest == EmitAll_KeepsGoing(r.fs, Tail(emissions), created)
       IN  IF r.raised # None
           THEN [fs |-> rest.fs, raised |-> r.raised, status |-> NoStatus]
           ELSE EmitAll_KeepsGoing(r.fs, Tail(emissions), Append(created, r.status))

\* EmitAll with a slip: the status lines are collected last first
RECURSIVE EmitAll_NewestFirst(_, _, _)
EmitAll_NewestFirst(fs, emissions, created) ==
  IF emissions = <<>>
  THEN [fs |-> fs, raised |-> None, status |-> MessagingReport(created)]
  ELSE LET r == JavaCodegenTool_run(fs, Head(emissions))
       IN  IF r.raised # None
           THEN [fs |-> r.fs, raised |-> r.raised, status |-> NoStatus]
           ELSE EmitAll_NewestFirst(r.fs, Tail(emissions), <<r.status>> \o created)

\* created.append(JavaCodegenTool()._run(...)), one call after the other: an
\* exception of a call leaves _run at once, what was written before stays
RECURSIVE EmitAll(_, _, _)
EmitAll(fs, emissions, created) ==
  IF emissions = <<>>
  THEN [fs |-> fs, raised |-> None, status |-> MessagingReport(created)]
  ELSE LET r == JavaCodegenTool_run(fs, Head(emissions))
       IN  IF r.raised # None
           THEN [fs |-> r.fs, raised |-> r.raised, status |-> NoStatus]
           ELSE EmitAll(r.fs, Tail(emissions), Append(created, r.status))

KafkaMessagingScaffoldTool_run(fs, a) == EmitAll(fs, KafkaEmissions(a), <<>>)

EmsMessagingScaffoldTool_run(fs, a) == EmitAll(fs, EmsEmissions(a), <<>>)

KafkaArgs ==
  [base_package      : {PkgAB, PkgExample},
   base_dir          : { <<".">> },
   topic             : {"orders", "audit"},
   client_id         : {"qa-testkit"},
   consumer_group    : {"qa-testkit-group"},
   acks              : {"all"},
   auto_offset_reset : {"earliest"},
   bootstrap_servers : {"localhost:9092"}]

\* the templates directory: without files, with one template, with both
TemplateDirs ==
  { <<>>,
    [n \in {"PRODUCER_TEST_BODY.j2"} |-> <<NL, "@Test void sends() {}", NL>>],
    [n \in {"PRODUCER_TEST_BODY.j2", "CONSUMER_TEST_BODY.j2"} |->
       IF n = "PRODUCER_TEST_BODY.j2" THEN <<"@Test void sends() {}">>
       ELSE <<"@Test void receives() {", NL, "}", NL>>] }

EmsArgs ==
  [base_package     : {PkgAB},
   base_dir         : { <<".">> },
   queue_name       : {"demo.queue"},
   jndi_initial_ctx : {"com.tibco.tibjms.naming.TibjmsInitialContextFactory"},
   provider_url     : {"tibjmsnaming://localhost:7222"},
   factory_jndi     : {"QueueConnectionFactory"},
   templates        : TemplateDirs]

KafkaMessagingScaffoldRun ==
  /\ calls < MaxCalls
  /\ \E a \in KafkaArgs :
       Finish("KafkaMessagingScaffoldTool", a, KafkaMessagingScaffoldTool_run(FS, a))

EmsMessagingScaffoldRun ==
  /\ calls < MaxCalls
  /\ \E a \in EmsArgs :
       Finish("EmsMessagingScaffoldTool", a, EmsMessagingScaffoldTool_run(FS, a))

\* files and directories standing in the way of the one or the other emission
BlockingPaths ==
  { <<"s", "r", "c">>,
    <<"s", "r", "c", "/", "t", "e", "s", "t">>,
    <<"s", "r", "c", "/", "m", "a", "i", "n", "/", "j", "a", "v", "a", "/", "a", "/", "b", "/", "m", "e", "s", "s", "a", "g", "i", "n", "g">>,
    <<"s", "r", "c", "/", "m", "a", "i", "n", "/", "j", "a", "v", "a", "/", "a", "/", "b", "/", "m", "e", "s", "s", "a", "g", "i", "n", "g", "/", "k", "a", "f", "k", "a", "/", "K", "a", "f", "k", "a", "C", "o", "n", "s", "u", "m", "e", "r", "C", "l", "i", "e", "n", "t", ".", "j", "a", "v", "a", "/", "x">>,
    <<"s", "r", "c", "/", "t", "e", "s", "t", "/", "j", "a", "v", "a", "/", "a", "/", "b", "/", "m", "e", "s", "s", "a", "g", "i", "n", "g", "/", "k", "a", "f", "k", "a", "/", "K", "a", "f", "k", "a", "C", "o", "n", "s", "u", "m", "e", "r", "T", "e", "s", "t", ".", "j", "a", "v", "a", "/", "x">>,
    <<"s", "r", "c", "/", "m", "a", "i", "n", "/", "j", "a", "v", "a", "/", "a", "/", "b", "/", "m", "e", "s", "s", "a", "g", "i", "n", "g", "/", "e", "m", "s", "/", "E", "m", "s", "P", "r", "o", "d", "u", "c", "e", "r", ".", "j", "a", "v", "a", "/", "x">>,
    <<"s", "r", "c", "/", "m", "a", "i", "n", "/", "j", "a", "v", "a", "/", "a", "/", "b", "/", "K", "a", "f", "k", "a", "C", "o", "n", "f", "i", "g", ".", "j", "a", "v", "a">> }

BlockingWrites == [path : BlockingPaths, content : { <<"x">> }, overwrite : {TRUE}]

FileWriterBeforeMessaging ==
  /\ calls < MaxCalls
  /\ \E a \in BlockingWrites : Finish("FileWriterTool", a, FileWriterTool_run(FS, a))

(***************************************************************************)
(* OpenAPISchemaTool                                                       *)
(*                                                                         *)
(* A dict is the sequence of its entries [k, v] in insertion order.  A     *)
(* schema value is [kind, val]: a text ("str"), a number written in digits *)
(* ("int"), a dict ("dict") or a list of values ("list").  A missing key   *)
(* of an endpoint is None.                                                 *)
(***************************************************************************)
UpperLetters == <<"A", "B", "C", "D", "E", "F", "G", "H", "I", "J", "K", "L", "M", "N", "O", "P", "Q", "R", "S", "T", "U", "V", "W", "X", "Y", "Z">>

LowerLetters == <<"a", "b", "c", "d", "e", "f", "g", "h", "i", "j", "k", "l", "m", "n", "o", "p", "q", "r", "s", "t", "u", "v", "w", "x", "y", "z">>

LowerChar(c) ==
  IF \E i \in 1..Len(UpperLetters) : UpperLetters[i] = c
  THEN LowerLetters[CHOOSE i \in 1..Len(UpperLetters) : UpperLetters[i] = c]
  ELSE c

\* str.lower()
Lower(s) == [i \in 1..Len(s) |-> LowerChar(s[i])]

\* json.dumps(v) of a text without quotes and backslashes, or of a number
JsonDumps(v) == IF v.kind = "str" THEN <<"\"", v.val, "\"">> ELSE <<v.val>>

\* "  " * indent
RECURSIVE Spaces(_)
Spaces(indent) == IF indent = 0 THEN "" ELSE "  " \o Spaces(indent - 1)

RECURSIVE _jsonschema_to_yaml(_, _)
RECURSIVE SchemaItems(_, _)
RECURSIVE SchemaLines(_, _)

\* for item in v: the lines of the items of a list
SchemaItems(items, indent) ==
  IF items = <<>> THEN <<>>
  ELSE LET item  == Head(items)
           these == IF item.kind \in {"dict", "list"}
                    THEN << <<Spaces(indent), "-">>,
                            _jsonschema_to_yaml(IF item.kind = "dict" THEN item.val
                                                ELSE << [k |-> "item", v |-> item] >>,
                                                indent + 1) >>
                    ELSE << <<Spaces(indent), "- ", item.val>> >>
       IN  these \o SchemaItems(Tail(items), indent)

\* for k, v in schema.items(): what is appended to lines
SchemaLines(schema, indent) ==
  IF schema = <<>> THEN <<>>
  ELSE LET k     == Head(schema).k
           v     == Head(schema).v
           these == IF v.kind = "dict"
                    THEN << <<Spaces(indent), k, ":">>, _jsonschema_to_yaml(v.val, indent + 1) >>
                    ELSE IF v.kind = "list"
                    THEN << <<Spaces(indent), k, ":">> >> \o SchemaItems(v.val, indent)
                    ELSE << <<Spaces(indent), k, ": ">> \o JsonDumps(v) >>
       IN  these \o SchemaLines(Tail(schema), indent)

_jsonschema_to_yaml(schema, indent) == Join(SchemaLines(schema, indent), <<NL>>)

\* op_block: a key that is not set is None
OpBlock(ep) ==
  [summary     |-> IF TruthyStr(ep.summary) THEN ep.summary ELSE None,
   operationId |-> IF TruthyStr(ep.operationId) THEN ep.operationId ELSE None,
   requestBody |-> IF Truthy(ep.requestSchema) THEN ep.requestSchema ELSE None,
   responses   |-> IF Truthy(ep.responseSchema)
                   THEN << [code |-> "200", description |-> "OK", content |-> ep.responseSchema] >>
                   ELSE None]

IsEmptyBlock(b) ==
  b.summary = None /\ b.operationId = None /\ b.requestBody = None /\ b.responses = None

\* op_block or {"responses": {"200": {"description": "OK"}}}
OpBlockOrDefault(ep) ==
  IF IsEmptyBlock(OpBlock(ep))
  THEN [OpBlock(ep) EXCEPT
          !.responses = << [code |-> "200", description |-> "OK", content |-> None] >>]
  ELSE OpBlock(ep)

\* PutOperation with a slip: an operation that is there already is kept
PutOperation_KeepsFirst(paths, path, method, block) ==
  LET withPath == IF \E i \in 1..Len(paths) : paths[i].path = path THEN paths
                  ELSE Append(paths, [path |-> path, methods |-> <<>>])
      i        == CHOOSE i \in 1..Len(withPath) : withPath[i].path = path
      ms       == withPath[i].methods
  IN  [withPath EXCEPT ![i].methods =
         IF \E j \in 1..Len(ms) : ms[j].method = method THEN ms
         ELSE Append(ms, [method |-> method, spec |-> block])]

\* if path not in paths: paths[path] = {}; paths[path][method] = block.
\* A dict keeps a key at the place of its first insertion.
PutOperation(paths, path, method, block) ==
  LET withPath == IF \E i \in 1..Len(paths) : paths[i].path = path THEN paths
                  ELSE Append(paths, [path |-> path, methods |-> <<>>])
      i        == CHOOSE i \in 1..Len(withPath) : withPath[i].path = path
      ms       == withPath[i].methods
  IN  [withPath EXCEPT ![i].methods =
         IF \E j \in 1..Len(ms) : ms[j].method = method
         THEN [j \in 1..Len(ms) |->
                 IF ms[j].method = method THEN [method |-> method, spec |-> block] ELSE ms[j]]
         ELSE Append(ms, [method |-> method, spec |-> block])]

\* for ep in endpoints
RECURSIVE GroupEndpoints(_, _)
GroupEndpoints(endpoints, paths) ==
  IF endpoints = <<>> THEN paths
  ELSE GroupEndpoints(Tail(endpoints),
                      PutOperation(paths, Head(endpoints).path, Lower(Head(endpoints).method),
                                   OpBlockOrDefault(Head(endpoints))))

\* OperationLines with a slip: the default entry is left out when the
\* operation has other keys but no "responses"
OperationLines_NoDefaultEntry(spec) ==
  (IF spec.summary # None THEN << <<"      summary: ", spec.summary>> >> ELSE <<>>)
  \o (IF spec.operationId # None
      THEN << <<"      operationId: ", spec.operationId>> >> ELSE <<>>)
  \o (IF spec.requestBody # None
      THEN << <<"      requestBody:">>, <<"        required: true">>, <<"        content:">>,
              <<"          application/json:">>, <<"            schema:">>,
              _jsonschema_to_yaml(spec.requestBody, 6) >>
      ELSE <<>>)
  \o << <<"      responses:">> >>
  \o (IF spec.responses # None /\ \E i \in 1..Len(spec.responses) : spec.responses[i].code = "200"
      THEN LET r200 == spec.responses[CHOOSE i \in 1..Len(spec.responses) :
                                        spec.responses[i].code = "200"]
           IN  << <<"        '200':">>, <<"          description: OK">> >>
               \o (IF r200.content # None
                   THEN << <<"          content:">>, <<"            application/json:">>,
                           <<"              schema:">>, _jsonschema_to_yaml(r200.content, 6) >>
                   ELSE <<>>)
      ELSE <<>>)

\* the lines of one operation below its method line
OperationLines(spec) ==
  (IF spec.summary # None THEN << <<"      summary: ", spec.summary>> >> ELSE <<>>)
  \o (IF spec.operationId # None
      THEN << <<"      operationId: ", spec.operationId>> >> ELSE <<>>)
  \o (IF spec.requestBody # None
      THEN << <<"      requestBody:">>, <<"        required: true">>, <<"        content:">>,
              <<"          application/json:">>, <<"            schema:">>,
              _jsonschema_to_yaml(spec.requestBody, 6) >>
      ELSE <<>>)
  \o << <<"      responses:">> >>
  \o (IF spec.responses # None /\ \E i \in 1..Len(spec.responses) : spec.responses[i].code = "200"
      THEN LET r200 == spec.responses[CHOOSE i \in 1..Len(spec.responses) :
                                        spec.responses[i].code = "200"]
           IN  << <<"        '200':">>, <<"          description: OK">> >>
               \o (IF r200.content # None
                   THEN << <<"          content:">>, <<"            application/json:">>,
                           <<"              schema:">>, _jsonschema_to_yaml(r200.content, 6) >>
                   ELSE <<>>)
      ELSE << <<"        '200':">>, <<"          description: OK">> >>)

\* for m, spec in methods.items()
MethodLines(methods) ==
  Join([j \in 1..Len(methods) |->
          << <<"    ">> \o methods[j].method \o <<":">> >> \o OperationLines(methods[j].spec)],
       <<>>)

\* yaml_lines
YamlLines(a) ==
  LET paths == GroupEndpoints(a.endpoints, <<>>)
  IN  << <<"openapi: 3.0.3">>, <<"info:">>, <<"  title: ", a.title>>,
         <<"  version: ", a.version>>, <<"paths:">> >>
      \o Join([i \in 1..Len(paths) |->
                 << <<"  ">> \o paths[i].path \o <<":">> >> \o MethodLines(paths[i].methods)],
              <<>>)

OpenApiContent(a) == Join(YamlLines(a), <<NL>>) \o <<NL>>

OpenApiPath(a) == PathJoin(Path(a.base_dir), Path(a.file))

OpenAPISchemaTool_run(fs, a) == _write_file(fs, OpenApiPath(a), OpenApiContent(a), TRUE)

StrValue(t) == [kind |-> "str", val |-> t]

SchemaObject ==
  << [k |-> "type", v |-> StrValue("object")],
     [k |-> "required", v |-> [kind |-> "list", val |-> << StrValue("id") >>]] >>

SchemaNested ==
  << [k |-> "properties",
      v |-> [kind |-> "dict",
             val  |-> << [k |-> "id",
                          v |-> [kind |-> "dict",
                                 val  |-> << [k |-> "type", v |-> StrValue("string")] >>]] >>]],
     [k |-> "minProperties", v |-> [kind |-> "int", val |-> "1"]] >>

EndpointPool ==
  { [method |-> <<"G", "E", "T">>, path |-> <<"/", "a">>, operationId |-> None,
     summary |-> None, requestSchema |-> None, responseSchema |-> None],
    [method |-> <<"g", "e", "t">>, path |-> <<"/", "a">>, operationId |-> None,
     summary |-> "second", requestSchema |-> None, responseSchema |-> SchemaObject],
    [method |-> <<"P", "o", "s", "t">>, path |-> <<"/", "a">>, operationId |-> "create",
     summary |-> None, requestSchema |-> SchemaObject, responseSchema |-> None],
    [method |-> <<"G", "E", "T">>, path |-> <<"/", "b">>, operationId |-> None,
     summary |-> "", requestSchema |-> SchemaNested, responseSchema |-> <<>>],
    [method |-> <<"G", "e", "t">>, path |-> <<"/", "a">>, operationId |-> "read",
     summary |-> None, requestSchema |-> None, responseSchema |-> None],
    [method |-> <<"P", "O", "S", "T">>, path |-> <<"/", "b">>, operationId |-> None,
     summary |-> "s", requestSchema |-> None, responseSchema |-> SchemaNested] }

OpenApiArgs ==
  [title     : {"Autocraft API"},
   version   : {"0.1.0"},
   endpoints : SeqsUpTo(EndpointPool, MaxEndpoints),
   base_dir  : { <<".">> },
   file      : { <<"o", "p", "e", "n", "a", "p", "i", ".", "y", "a", "m", "l">>, <<"d", "o", "c", "s", "/", "a", "p", "i", ".", "y", "a", "m", "l">> }]

OpenAPISchemaRun ==
  /\ op = None
  /\ \E a \in OpenApiArgs : Finish("OpenAPISchemaTool", a, OpenAPISchemaTool_run(FS, a))

(***************************************************************************)
(* ReadmeWriterTool                                                        *)
(*                                                                         *)
(* The sections dict is the sequence of its entries [h, md] in insertion   *)
(* order, the headings all different; no sections is the empty dict.       *)
(***************************************************************************)
\* ReadmeLines with a slip: the body is taken as it is
ReadmeLines_Untrimmed(a) ==
  LET sections == a.sections
  IN  << <<"#", " ">> \o a.title, <<>> >>
      \o Join([i \in 1..Len(sections) |->
                 << <<"#", "#", " ">> \o sections[i].h, sections[i].md, <<>> >>],
              <<>>)

\* md_lines
ReadmeLines(a) ==
  LET sections == a.sections
  IN  << <<"#", " ">> \o a.title, <<>> >>
      \o Join([i \in 1..Len(sections) |->
                 << <<"#", "#", " ">> \o sections[i].h, Strip(sections[i].md), <<>> >>],
              <<>>)

ReadmeContent(a) == Join(ReadmeLines(a), <<NL>>)

ReadmePath(a) == PathJoin(Path(a.base_dir), Path(<<"R", "E", "A", "D", "M", "E", ".", "m", "d">>))

ReadmeWriterTool_run(fs, a) == _write_file(fs, ReadmePath(a), ReadmeContent(a), TRUE)

ReadmeHeadings == { <<"H">>, <<"U", "s", "e">> }

ReadmeBodies == { <<>>, <<" ", "b", "\n">>, <<"\n", "U+00E9", " ", "c">> }

SectionLists ==
  {s \in SeqsUpTo([h : ReadmeHeadings, md : ReadmeBodies], MaxSections) :
     \A i, j \in 1..Len(s) : i # j => s[i].h # s[j].h}

ReadmeArgs ==
  [title    : { <<"Q", "A", " ", "T", "e", "s", "t", "k", "i", "t">>, <<" ", "T">> },
   sections : SectionLists,
   base_dir : { <<".">>, <<"o">> }]

\* one run of ReadmeWriterTool
ReadmeWriterRun ==
  /\ calls < MaxCalls
  /\ op # "ReadmeWriterTool"
  /\ \E a \in ReadmeArgs : Finish("ReadmeWriterTool", a, ReadmeWriterTool_run(FS, a))

\* what is at the place of the README before the run
ReadmeFileWrites ==
  [path      : { <<"R", "E", "A", "D", "M", "E", ".", "m", "d">>, <<"o", "/", "R", "E", "A", "D", "M", "E", ".", "m", "d">>, <<"R", "E", "A", "D", "M", "E", ".", "m", "d", "/", "x">>, <<"o">> },
   content   : { <<"x">> },
   overwrite : {TRUE}]

FileWriterBeforeReadme ==
  /\ op = None
  /\ \E a \in ReadmeFileWrites : Finish("FileWriterTool", a, FileWriterTool_run(FS, a))

(***************************************************************************)
(* The templates directory and the template constants of the module        *)
(*                                                                         *)
(* The templates directory is a directory of the filesystem, at the place  *)
(* where the package is installed.                                         *)
(***************************************************************************)
\* Path(__file__).parent.parent / "templates"
TemplatesDir == Path(<<"/", "p", "k", "g", "/", "t", "e", "m", "p", "l", "a", "t", "e", "s">>)

\* the characters of the names of the templates
TemplateNameChars ==
  ("H2_TEST_BODY_TESTCONTAINERS.j2" :>
     <<"H", "2", "_", "T", "E", "S", "T", "_", "B", "O", "D", "Y", "_", "T", "E", "S", "T", "C", "O", "N", "T", "A", "I", "N", "E", "R", "S", ".", "j", "2">>) @@
  ("H2_TEST_BODY_INMEM.j2" :>
     <<"H", "2", "_", "T", "E", "S", "T", "_", "B", "O", "D", "Y", "_", "I", "N", "M", "E", "M", ".", "j", "2">>) @@
  ("JDBC_EXEC_BODY_TMPL.j2" :>
     <<"J", "D", "B", "C", "_", "E", "X", "E", "C", "_", "B", "O", "D", "Y", "_", "T", "M", "P", "L", ".", "j", "2">>) @@
  ("MONGO_EMBED_BODY.j2" :>
     <<"M", "O", "N", "G", "O", "_", "E", "M", "B", "E", "D", "_", "B", "O", "D", "Y", ".", "j", "2">>) @@
  ("TESTCONTAINERS_SQLSERVER_BODY.j2" :>
     <<"T", "E", "S", "T", "C", "O", "N", "T", "A", "I", "N", "E", "R", "S", "_", "S", "Q", "L", "S", "E", "R", "V", "E", "R", "_", "B", "O", "D", "Y", ".", "j", "2">>) @@
  ("KAFKA_MOCK_BODY.h2" :>
     <<"K", "A", "F", "K", "A", "_", "M", "O", "C", "K", "_", "B", "O", "D", "Y", ".", "h", "2">>) @@
  ("FAKER_BODY_TMPL.j2" :>
     <<"F", "A", "K", "E", "R", "_", "B", "O", "D", "Y", "_", "T", "M", "P", "L", ".", "j", "2">>) @@
  ("PRODUCER_TEST_BODY.j2" :>
     <<"P", "R", "O", "D", "U", "C", "E", "R", "_", "T", "E", "S", "T", "_", "B", "O", "D", "Y", ".", "j", "2">>) @@
  ("CONSUMER_TEST_BODY.j2" :>
     <<"C", "O", "N", "S", "U", "M", "E", "R", "_", "T", "E", "S", "T", "_", "B", "O", "D", "Y", ".", "j", "2">>)

\* template_path
TemplatePath(name) == PathJoin(TemplatesDir, Path(TemplateNameChars[name]))

\* the regular files of the templates directory, name -> text
TemplateFiles(fs) ==
  [n \in {m \in DOMAIN TemplateNameChars : IsFile(fs, TemplatePath(m))} |->
     fs.files[TemplatePath(n)]]

\* ReadTemplate with a slip: the file is read without asking whether it exists
ReadTemplate_NoExistsTest(fs, name) ==
  IF ~Exists(fs, TemplatePath(name)) THEN [raised |-> "FileNotFoundError", text |-> None]
  ELSE IF IsDir(fs, TemplatePath(name)) THEN [raised |-> "IsADirectoryError", text |-> None]
  ELSE [raised |-> None, text |-> _read_template(TemplateFiles(fs), name)]

\* _read_template on the filesystem: exists() holds for a directory as well,
\* and read_text() of a directory raises
ReadTemplate(fs, name) ==
  IF ~Exists(fs, TemplatePath(name)) THEN [raised |-> None, text |-> <<>>]
  ELSE IF IsDir(fs, TemplatePath(name)) THEN [raised |-> "IsADirectoryError", text |-> None]
  ELSE [raised |-> None, text |-> _read_template(TemplateFiles(fs), name)]

ReadNames == {"PRODUCER_TEST_BODY.j2", "CONSUMER_TEST_BODY.j2", "JDBC_EXEC_BODY_TMPL.j2"}

\* one call of _read_template
ReadTemplateCall ==
  /\ calls < MaxCalls
  /\ \E name \in ReadNames :
       LET r == ReadTemplate(FS, name)
       IN  Finish("_read_template", [template_name |-> name],
                  [fs |-> FS, raised |-> r.raised,
                   status |-> IF r.raised = None THEN [tag |-> "TEXT", text |-> r.text]
                              ELSE NoStatus])

TemplateTexts == { <<>>, <<" ", "\n">>, <<"\n", "@Test void sends() {}", "\n">>, <<"x", " ", "y">> }

\* a template file is written, or a directory is made in its place
TemplateWrites ==
  [path      : {<<"/", "p", "k", "g", "/", "t", "e", "m", "p", "l", "a", "t", "e", "s", "/">> \o TemplateNameChars[n] : n \in ReadNames}
               \cup {<<"/", "p", "k", "g", "/", "t", "e", "m", "p", "l", "a", "t", "e", "s", "/">> \o TemplateNameChars[n] \o <<"/", "x">> :
                       n \in ReadNames},
   content   : TemplateTexts,
   overwrite : {TRUE}]

FileWriterOnTemplates ==
  /\ calls < MaxCalls
  /\ \E a \in TemplateWrites : Finish("FileWriterTool", a, FileWriterTool_run(FS, a))

\* the template constants of the module, read when the module is imported
LoadModule(fs) ==
  [H2_TEST_BODY_TESTCONTAINERS   |-> ReadTemplate(fs, "H2_TEST_BODY_TESTCONTAINERS.j2").text,
   H2_TEST_BODY_INMEM            |-> ReadTemplate(fs, "H2_TEST_BODY_INMEM.j2").text,
   JDBC_EXEC_BODY_TMPL           |-> ReadTemplate(fs, "JDBC_EXEC_BODY_TMPL.j2").text,
   MONGO_EMBED_BODY              |-> ReadTemplate(fs, "MONGO_EMBED_BODY.j2").text,
   TESTCONTAINERS_SQLSERVER_BODY |-> ReadTemplate(fs, "TESTCONTAINERS_SQLSERVER_BODY.j2").text,
   KAFKA_MOCK_BODY               |-> ReadTemplate(fs, "KAFKA_MOCK_BODY.h2").text,
   FAKER_BODY_TMPL               |-> ReadTemplate(fs, "FAKER_BODY_TMPL.j2").text]

(***************************************************************************)
(* H2RunnerTool                                                            *)
(***************************************************************************)
\* the import list of H2RunnerTool._run
H2Imports(mode) ==
  << <<"java.sql.*">>,
     <<"org.assertj.core.api.Assertions">>,
     <<"org.junit.jupiter.api.*">>,
     IF mode = "testcontainers" THEN <<"org.testcontainers.containers.*">> ELSE <<>> >>

\* the arguments H2RunnerTool._run hands to JavaCodegenTool()._run
H2JavaArgs(consts, a) ==
  [base_package |-> a.base_package,
   class_name   |-> a.class_name,
   src_type     |-> "test",
   body         |-> IF a.mode = "testcontainers" THEN consts.H2_TEST_BODY_TESTCONTAINERS
                    ELSE consts.H2_TEST_BODY_INMEM,
   imports      |-> H2Imports(a.mode),
   annotations  |-> <<>>,
   javadoc      |-> <<"Auto-generated smoke test for DB connectivity.">>,
   base_dir     |-> a.base_dir]

H2RunnerTool_run(fs, consts, a) == JavaCodegenTool_run(fs, H2JavaArgs(consts, a))

H2Args ==
  [base_package : {PkgAB},
   class_name   : {<<"H", "2", "S", "m", "o", "k", "e", "T", "e", "s", "t">>},
   base_dir     : { <<".">> },
   mode         : {"testcontainers", "inmem"}]

H2RunnerRun ==
  /\ calls < MaxCalls
  /\ \E a \in H2Args : Finish("H2RunnerTool", a, H2RunnerTool_run(FS, loaded, a))

(***************************************************************************)
(* The generators in a process whose templates directory is edited         *)
(***************************************************************************)
\* the templates directory when the module is imported
StartupFS ==
  [files |-> (TemplatePath("PRODUCER_TEST_BODY.j2") :> <<"@Test void sends() {}", NL>>)
             @@ (TemplatePath("CONSUMER_TEST_BODY.j2") :> <<"@Test void receives() {}", NL>>)
             @@ (TemplatePath("H2_TEST_BODY_INMEM.j2") :> <<"@Test void inmem() {}", NL>>)
             @@ (TemplatePath("H2_TEST_BODY_TESTCONTAINERS.j2") :> <<"@Test void container() {}", NL>>)
             @@ (TemplatePath("JDBC_EXEC_BODY_TMPL.j2") :>
                   <<"Class.forName(\"", "%DRIVER%", "\");", NL,
                     "c = DriverManager.getConnection(\"", "%URL%", "\", \"", "%USER%",
                     "\", \"", "%PASS%", "\");", NL,
                     "c.createStatement().execute(\"", "%SQL%", "\");", NL>>),
   dirs  |-> Prefixes(TemplatesDir)]

\* a template file is rewritten while the process runs
TemplateEdits ==
  [path      : {<<"/", "p", "k", "g", "/", "t", "e", "m", "p", "l", "a", "t", "e", "s", "/">> \o TemplateNameChars[n] :
                  n \in {"PRODUCER_TEST_BODY.j2", "H2_TEST_BODY_INMEM.j2"}},
   content   : { <<"@Test void edited() {}">>, <<>> },
   overwrite : {TRUE}]

FileWriterEditsTemplate ==
  /\ calls < MaxCalls
  /\ \E a \in TemplateEdits : Finish("FileWriterTool", a, FileWriterTool_run(FS, a))

\* EmsMessagingScaffoldTool._run reads its two templates from the directory
EmsMessagingScaffoldOnDisk ==
  /\ calls < MaxCalls
  /\ \E a \in EmsArgs :
       /\ a.templates = <<>>
       /\ LET b == [a EXCEPT !.templates = TemplateFiles(FS)]
          IN  Finish("EmsMessagingScaffoldTool", b, EmsMessagingScaffoldTool_run(FS, b))

(***************************************************************************)
(* The generators and the base directory of the caller                     *)
(***************************************************************************)
\* FileWriterTool takes a path and no base directory
AnyPaths ==
  { <<"a">>, <<"o", "/", "a">>, <<"/", "s", "r", "v", "/", "a">> }

FileWriterAnyArgs == [path : AnyPaths, content : { <<>>, <<"x">> }, overwrite : BOOLEAN]

FileWriterAnywhere ==
  /\ calls < MaxCalls
  /\ \E a \in FileWriterAnyArgs : Finish("FileWriterTool", a, FileWriterTool_run(FS, a))

\* OpenAPISchemaTool with a file name that is relative or absolute
OpenApiFileArgs ==
  [title     : {"Autocraft API"},
   version   : {"0.1.0"},
   endpoints : { <<>> },
   base_dir  : { <<".">>, <<"o">> },
   file      : { <<"o", "p", "e", "n", "a", "p", "i", ".", "y", "a", "m", "l">>, <<"/", "s", "r", "v", "/", "a", "p", "i", ".", "y", "a", "m", "l">> }]

OpenAPISchemaInBaseDir ==
  /\ calls < MaxCalls
  /\ \E a \in OpenApiFileArgs : Finish("OpenAPISchemaTool", a, OpenAPISchemaTool_run(FS, a))

\* PomXmlTool with one dependency
PomXmlInBaseDir ==
  /\ calls < MaxCalls
  /\ \E a \in PomArgs :
       /\ Len(a.dependencies) = 1 /\ a.plugins = <<>> /\ a.artifactId = "kit"
       /\ Finish("PomXmlTool", a, PomXmlTool_run(FS, a))

(***************************************************************************)
(* JDBCExecutorTool                                                        *)
(***************************************************************************)
\* str.replace(old, new) on a text whose markers are pieces of their own
StrReplace(s, old, new) ==
  Join([i \in 1..Len(s) |-> IF s[i] = old THEN new ELSE <<s[i]>>], <<>>)

\* the chain of five replace calls, each on the result of the one before
JdbcBody(tmpl, a) ==
  StrReplace(
    StrReplace(
      StrReplace(
        StrReplace(
          StrReplace(tmpl, "%DRIVER%", a.driver_class),
          "%URL%", a.jdbc_url),
        "%USER%", a.username),
      "%PASS%", a.password),
    "%SQL%", a.sql)

\* the arguments JDBCExecutorTool._run hands to JavaCodegenTool()._run
JdbcJavaArgs(consts, a) ==
  [base_package |-> a.base_package,
   class_name   |-> a.class_name,
   src_type     |-> "main",
   body         |-> JdbcBody(consts.JDBC_EXEC_BODY_TMPL, a),
   imports      |-> << <<"java.sql.*">> >>,
   annotations  |-> <<>>,
   javadoc      |-> <<"Auto-generated JDBC example application.">>,
   base_dir     |-> a.base_dir]

JDBCExecutorTool_run(fs, consts, a) == JavaCodegenTool_run(fs, JdbcJavaArgs(consts, a))

JdbcArgs ==
  [base_package : {PkgAB},
   class_name   : {<<"J", "d", "b", "c", "E", "x", "e", "c">>},
   base_dir     : { <<".">> },
   driver_class : { <<"org.h2.Driver">>, <<"%URL%">> },
   jdbc_url     : { <<"jdbc:h2:mem:t">>, <<"jdbc:h2:", "%USER%">>, <<"jdbc:h2:", "%SQL%">> },
   username     : { <<"sa">>, <<"%PASS%">>, <<"%URL%">> },
   password     : { <<>>, <<"p">>, <<"%SQL%">> },
   sql          : { <<"SELECT 1">>, <<"SELECT '", "%DRIVER%", "'">> }]

\* one run of the emitter in a directory without Java files
JDBCExecutorRun ==
  /\ op = None
  /\ \E a \in JdbcArgs : Finish("JDBCExecutorTool", a, JDBCExecutorTool_run(FS, loaded, a))

(***************************************************************************)
(* crew.py: _code_exec_defaults, build_agents                              *)
(***************************************************************************)
\* Python values of a configuration, each with the name of its type
PyBool(b) == [t |-> "bool", v |-> b]
PyStr(s) == [t |-> "str", v |-> s]
PyInt(digits) == [t |-> "int", v |-> digits]
PyNone == [t |-> "NoneType", v |-> "None"]

\* str(v).lower() in ("1", "true", "yes", "on")
_truthy(v) ==
  Lower(IF v = None THEN <<"N", "o", "n", "e">> ELSE v)
    \in { <<"1">>, <<"t", "r", "u", "e">>, <<"y", "e", "s">>, <<"o", "n">> }

DecimalDigits == {"0", "1", "2", "3", "4", "5", "6", "7", "8", "9"}

RECURSIVE DropZeros(_)
DropZeros(s) == IF Len(s) > 1 /\ Head(s) = "0" THEN DropZeros(Tail(s)) ELSE s

RECURSIVE Concat(_)
Concat(s) == IF s = <<>> THEN "" ELSE Head(s) \o Concat(Tail(s))

\* int(text) for a text of decimal digits; any other text of the inputs raises
\* ValueError
ParseInt(s) ==
  IF s # <<>> /\ \A i \in 1..Len(s) : s[i] \in DecimalDigits
  THEN [raised |-> None, value |-> PyInt(Concat(DropZeros(s)))]
  ELSE [raised |-> "ValueError", value |-> PyNone]

\* the dict d of _code_exec_defaults; a variable that is not set is None
_code_exec_defaults(env) ==
  (IF _truthy(env.CREW_CODE_EXEC) THEN ("allow_code_execution" :> PyBool("True")) ELSE <<>>)
  @@ (IF TruthyStr(env.CREW_CODE_MODE)
      THEN ("code_execution_mode" :> PyStr(env.CREW_CODE_MODE)) ELSE <<>>)
  @@ (IF Truthy(env.CREW_CODE_TIMEOUT)
      THEN ("max_execution_time" :>
              IF ParseInt(env.CREW_CODE_TIMEOUT).raised = None
              THEN ParseInt(env.CREW_CODE_TIMEOUT).value ELSE PyInt("30"))
      ELSE <<>>)
  @@ (IF Truthy(env.CREW_CODE_RETRIES)
      THEN ("max_retry_limit" :>
              IF ParseInt(env.CREW_CODE_RETRIES).raised = None
              THEN ParseInt(env.CREW_CODE_RETRIES).value ELSE PyInt("3"))
      ELSE <<>>)

CodeExecOptions ==
  {"allow_code_execution", "code_execution_mode", "max_execution_time", "max_retry_limit"}

CommonFlags == {"verbose", "cache", "allow_delegation"}

\* the four setdefault calls for an agent named coder
CoderFallback ==
  ("allow_code_execution" :> PyBool("True")) @@ ("code_execution_mode" :> PyStr("safe"))
  @@ ("max_execution_time" :> PyInt("30")) @@ ("max_retry_limit" :> PyInt("3"))

\* spec.get("role") or name
RoleOf(name, spec) ==
  IF "role" \in DOMAIN spec /\ spec["role"].t = "str" /\ spec["role"].v # ""
  THEN spec["role"] ELSE PyStr(Concat(name))

\* AgentKwargs with a slip: the environment is applied before the YAML keys
AgentKwargs_EnvFirst(env_code_defaults, name, spec) ==
  LET base   == ("role" :> RoleOf(name, spec)) @@ ("goal" :> PyStr(""))
                @@ ("backstory" :> PyStr(""))
      yaml   == [k \in DOMAIN spec \cap (CommonFlags \cup CodeExecOptions) |-> spec[k]]
      common == base @@ env_code_defaults @@ yaml
  IN  IF Lower(name) = <<"c", "o", "d", "e", "r">> THEN common @@ CoderFallback ELSE common

\* kwargs of one agent: the keys of the YAML spec, then setdefault with the
\* environment defaults, then setdefault with the fallback of a coder.  The
\* inputs have no llm and no tools, and goal and backstory are not given.
AgentKwargs(env_code_defaults, name, spec) ==
  LET base   == ("role" :> RoleOf(name, spec)) @@ ("goal" :> PyStr(""))
                @@ ("backstory" :> PyStr(""))
      yaml   == [k \in DOMAIN spec \cap (CommonFlags \cup CodeExecOptions) |-> spec[k]]
      common == base @@ yaml @@ env_code_defaults
  IN  IF Lower(name) = <<"c", "o", "d", "e", "r">> THEN common @@ CoderFallback ELSE common

\* for name, spec in agents_cfg.items()
RECURSIVE BuildAgentsLoop(_, _, _, _)
BuildAgentsLoop(env_code_defaults, agents_cfg, k, st) ==
  IF k > Len(agents_cfg) THEN st
  ELSE LET name == agents_cfg[k].name
           spec == agents_cfg[k].spec
       IN  BuildAgentsLoop(env_code_defaults, agents_cfg, k + 1,
             IF spec.kind # "dict"
             THEN [st EXCEPT !.warnings = Append(@, name)]
             ELSE [st EXCEPT !.agents =
                     Append(@, [name   |-> name,
                                kwargs |-> AgentKwargs(env_code_defaults, name, spec.val)])])

\* the agents in the order they were built, and the names warned about
build_agents(env, agents_cfg) ==
  BuildAgentsLoop(_code_exec_defaults(env), agents_cfg, 1, [agents |-> <<>>, warnings |-> <<>>])

EnvSettings ==
  [CREW_CODE_EXEC    : {None, <<"T", "R", "U", "E">>, <<"0">>},
   CREW_CODE_MODE    : {None, "local"},
   CREW_CODE_TIMEOUT : {None, <<"0", "6", "0">>, <<"a", "b", "c">>},
   CREW_CODE_RETRIES : {None, <<"5">>}]

AgentNames == { <<"c", "o", "d", "e", "r">>, <<"C", "o", "d", "e", "r">>, <<"q", "a">> }

AgentSpecs ==
  { [kind |-> "str", val |-> <<>>],
    [kind |-> "dict", val |-> <<>>],
    [kind |-> "dict", val |-> ("allow_code_execution" :> PyBool("False"))],
    [kind |-> "dict", val |-> ("code_execution_mode" :> PyStr("local"))
                               @@ ("max_execution_time" :> PyNone)],
    [kind |-> "dict", val |-> ("allow_code_execution" :> PyBool("True"))
                               @@ ("code_execution_mode" :> PyStr("safe"))
                               @@ ("max_execution_time" :> PyInt("5"))
                               @@ ("max_retry_limit" :> PyInt("0"))
                               @@ ("verbose" :> PyBool("True"))] }

\* the keys of a YAML mapping are distinct
DistinctNames(cfg) == \A i, j \in 1..Len(cfg) : i # j => cfg[i].name # cfg[j].name

AgentsCfgs ==
  {cfg \in SeqsUpTo([name : AgentNames, spec : AgentSpecs], MaxAgents) : DistinctNames(cfg)}

\* one call of build_agents in a fresh process
BuildAgents ==
  /\ op = None
  /\ \E env \in EnvSettings, cfg \in AgentsCfgs :
       LET r == build_agents(env, cfg)
       IN  Finish("build_agents", [env |-> env, agents_cfg |-> cfg],
                  [fs |-> FS, raised |-> None,
                   status |-> [tag |-> "AGENTS", agents |-> r.agents, warnings |-> r.warnings]])

(***************************************************************************)
(* crew.py: build_tasks, build_crew                                        *)
(***************************************************************************)
\* a task spec that is a mapping: a key that is missing, null or empty is <<>>,
\* the three are not told apart by spec.get(key) or default
TaskSpec(agent, description, context) ==
  [kind |-> "dict", agent |-> agent, description |-> description,
   expected_output |-> <<>>, context |-> context]

\* tasks_cfg.get(k, {})
TaskCfgGet(tasks_cfg, k) ==
  IF \E i \in 1..Len(tasks_cfg) : tasks_cfg[i].name = k
  THEN tasks_cfg[CHOOSE i \in 1..Len(tasks_cfg) : tasks_cfg[i].name = k].spec
  ELSE TaskSpec(<<>>, <<>>, <<>>)

\* the chunks of one context task
ContextChunk(k, ctx) ==
  (IF Truthy(ctx.description)
   THEN << <<"[", k, "] description:", NL>> \o Strip(ctx.description) >> ELSE <<>>)
  \o (IF Truthy(ctx.expected_output)
      THEN << <<"[", k, "] expected_output:", NL>> \o Strip(ctx.expected_output) >> ELSE <<>>)

\* for k in ctx_keys: ctx.get raises when the spec of k is not a mapping
RECURSIVE ContextChunks(_, _, _)
ContextChunks(ctx_keys, tasks_cfg, chunks) ==
  IF ctx_keys = <<>> THEN [raised |-> None, chunks |-> chunks]
  ELSE LET ctx == TaskCfgGet(tasks_cfg, Head(ctx_keys))
       IN  IF ctx.kind # "dict" THEN [raised |-> "AttributeError", chunks |-> chunks]
           ELSE ContextChunks(Tail(ctx_keys), tasks_cfg,
                              chunks \o ContextChunk(Head(ctx_keys), ctx))

_collect_task_context_text(task_name, tasks_cfg) ==
  LET tcfg == TaskCfgGet(tasks_cfg, task_name)
      r    == ContextChunks(IF Truthy(tcfg.context) THEN tcfg.context ELSE <<>>, tasks_cfg, <<>>)
  IN  [raised |-> r.raised,
       text   |-> IF r.raised = None THEN Strip(Join(r.chunks, <<NL, NL>>)) ELSE <<>>]

AgentKeys(agents) == {agents[i].name : i \in 1..Len(agents)}

\* kwargs of one task
TaskKwargs(name, spec, ctx_blob) ==
  [name            |-> name,
   description     |-> IF Truthy(spec.description) THEN spec.description ELSE <<>>,
   agent           |-> spec.agent,
   expected_output |-> IF Truthy(spec.expected_output) THEN spec.expected_output ELSE None,
   input           |-> IF ctx_blob # <<>>
                       THEN <<"Context for ", name, ":", NL, NL>> \o ctx_blob ELSE None]

\* for name, spec in tasks_cfg.items()
RECURSIVE BuildTasksLoop(_, _, _, _)
BuildTasksLoop(tasks_cfg, agents, k, st) ==
  IF k > Len(tasks_cfg) THEN st
  ELSE LET name == tasks_cfg[k].name
           spec == tasks_cfg[k].spec
           blob == _collect_task_context_text(name, tasks_cfg)
       IN  IF spec.kind # "dict"
           THEN BuildTasksLoop(tasks_cfg, agents, k + 1,
                               [st EXCEPT !.warnings = Append(@, name)])
           ELSE IF ~Truthy(spec.agent) \/ spec.agent \notin AgentKeys(agents)
           THEN [st EXCEPT !.raised = "KeyError",
                           !.error = [task |-> name, agent |-> spec.agent,
                                      available |-> [i \in 1..Len(agents) |-> agents[i].name]]]
           ELSE IF blob.raised # None
           THEN [st EXCEPT !.raised = blob.raised, !.error = [task |-> name]]
           ELSE BuildTasksLoop(tasks_cfg, agents, k + 1,
                               [st EXCEPT !.tasks = Append(@, TaskKwargs(name, spec, blob.text))])

build_tasks(tasks_cfg, agents) ==
  BuildTasksLoop(tasks_cfg, agents, 1,
                 [tasks |-> <<>>, warnings |-> <<>>, raised |-> None, error |-> None])

\* ordered_tasks = [tasks[k] for k in tasks_cfg.keys() if k in tasks]
OrderedTasks(tasks_cfg, tasks) ==
  LET kept == SelectSeq([i \in 1..Len(tasks_cfg) |-> tasks_cfg[i].name],
                        LAMBDA k : \E j \in 1..Len(tasks) : tasks[j].name = k)
  IN  [i \in 1..Len(kept) |-> tasks[CHOOSE j \in 1..Len(tasks) : tasks[j].name = kept[i]]]

\* what build_crew returns or raises, and the warnings printed on the way
build_crew(env, agents_cfg, tasks_cfg) ==
  LET a == build_agents(env, agents_cfg)
      t == build_tasks(tasks_cfg, a.agents)
  IN  IF t.raised # None
      THEN [raised |-> t.raised,
            status |-> [tag |-> "ERROR", error |-> t.error,
                        agent_warnings |-> a.warnings, task_warnings |-> t.warnings]]
      ELSE [raised |-> None,
            status |-> [tag |-> "CREW",
                        crew |-> [agents |-> a.agents,
                                  tasks |-> OrderedTasks(tasks_cfg, t.tasks),
                                  process |-> "sequential"],
                        agent_warnings |-> a.warnings, task_warnings |-> t.warnings]]

CrewEnvs ==
  [CREW_CODE_EXEC    : {None, <<"T", "R", "U", "E">>},
   CREW_CODE_MODE    : {None},
   CREW_CODE_TIMEOUT : {None},
   CREW_CODE_RETRIES : {None}]

CrewAgentsCfgs ==
  {cfg \in AgentsCfgs :
     \A i \in 1..Len(cfg) : /\ cfg[i].name \in { <<"q", "a">>, <<"c", "o", "d", "e", "r">> }
                            /\ cfg[i].spec.val = <<>>}

TaskNames == {"t1", "t2", "t3"}

TaskSpecs ==
  { [kind |-> "str", agent |-> <<>>, description |-> <<>>, expected_output |-> <<>>,
     context |-> <<>>],
    TaskSpec(<<"q", "a">>, <<" ", "d", " ">>, <<>>),
    TaskSpec(<<"q", "a">>, <<>>, <<"t1", "t9">>),
    TaskSpec(<<"c", "o", "d", "e", "r">>, <<>>, <<>>),
    TaskSpec(<<>>, <<"d">>, <<>>),
    TaskSpec(<<"n", "o", "b", "o", "d", "y">>, <<>>, <<>>) }

TasksCfgs ==
  {cfg \in SeqsUpTo([name : TaskNames, spec : TaskSpecs], MaxTasks) : DistinctNames(cfg)}

\* one call of build_crew in a fresh process
BuildCrew ==
  /\ op = None
  /\ \E env \in CrewEnvs, acfg \in CrewAgentsCfgs, tcfg \in TasksCfgs :
       LET r == build_crew(env, acfg, tcfg)
       IN  Finish("build_crew", [env |-> env, agents_cfg |-> acfg, tasks_cfg |-> tcfg],
                  [fs |-> FS, raised |-> r.raised, status |-> r.status])

(***************************************************************************)
(* Specifications                                                          *)
(***************************************************************************)
Init ==
  /\ files = <<>>
  /\ dirs = {}
  /\ before = [files |-> <<>>, dirs |-> {}]
  /\ op = None
  /\ args = [none |-> TRUE]
  /\ result = [raised |-> None, status |-> NoStatus]
  /\ calls = 0
  /\ instances = <<>>
  /\ loaded = LoadModule([files |-> <<>>, dirs |-> {}])

\* FileWriterTool and JavaCodegenTool called in any order on one filesystem
Next == FileWriterRun \/ JavaCodegenRun

Spec == Init /\ [][Next]_vars

RenderNext == JavaCodegenRender

SpecRender == Init /\ [][RenderNext]_vars

PomNext == PomXmlRun

SpecPom == Init /\ [][PomNext]_vars

RegistryNext == GetToolByName

SpecRegistry == Init /\ [][RegistryNext]_vars

AdapterNext == MaterializeTools

SpecAdapter == Init /\ [][AdapterNext]_vars

ScaffoldNext == RepoScaffolderRun \/ FileWriterBeforeScaffold

SpecScaffold == Init /\ [][ScaffoldNext]_vars

\* the two messaging scaffolds on a filesystem that FileWriterTool has prepared
MessagingNext ==
  KafkaMessagingScaffoldRun \/ EmsMessagingScaffoldRun \/ FileWriterBeforeMessaging

SpecMessaging == Init /\ [][MessagingNext]_vars

\* one run of OpenAPISchemaTool on an empty filesystem
OpenApiNext == OpenAPISchemaRun

SpecOpenApi == Init /\ [][OpenApiNext]_vars

\* ReadmeWriterTool on an empty filesystem or after one FileWriterTool run
ReadmeNext == ReadmeWriterRun \/ FileWriterBeforeReadme

SpecReadme == Init /\ [][ReadmeNext]_vars

\* _read_template on a templates directory that FileWriterTool fills
TemplateStoreNext == ReadTemplateCall \/ FileWriterOnTemplates

SpecTemplateStore == Init /\ [][TemplateStoreNext]_vars

\* the module is imported with its templates directory in place
InitReload ==
  /\ files = StartupFS.files
  /\ dirs = StartupFS.dirs
  /\ before = StartupFS
  /\ op = None
  /\ args = [none |-> TRUE]
  /\ result = [raised |-> None, status |-> NoStatus]
  /\ calls = 0
  /\ instances = <<>>
  /\ loaded = LoadModule(StartupFS)

ReloadNext == FileWriterEditsTemplate \/ H2RunnerRun \/ EmsMessagingScaffoldOnDisk

SpecReload == InitReload /\ [][ReloadNext]_vars

\* the tools that write one file each, with and without a base directory
BaseDirNext == FileWriterAnywhere \/ OpenAPISchemaInBaseDir \/ PomXmlInBaseDir

SpecBaseDir == Init /\ [][BaseDirNext]_vars

JdbcNext == JDBCExecutorRun

SpecJdbc == InitReload /\ [][JdbcNext]_vars

CrewAgentsNext == BuildAgents

SpecAgents == Init /\ [][CrewAgentsNext]_vars

CrewNext == BuildCrew

SpecCrew == Init /\ [][CrewNext]_vars

(***************************************************************************)
(* Properties                                                              *)
(***************************************************************************)
JavaRan == op = "JavaCodegenTool"

PomRan == op = "PomXmlTool"

FileWriterRan == op = "FileWriterTool"

LookupRan == op = "get_tool_by_name"

\* the regular files that the last call made or changed
Written == {p \in DOMAIN files : p \notin DOMAIN before.files \/ before.files[p] # files[p]}

Contains(text, piece) == \E i \in 1..Len(text) : text[i] = piece

\* C1: the Java class emitter fails with a validation error, and writes no
\* file, whenever the source kind is neither 'main' nor 'test'.
C1_InvalidKindRejected ==
  (JavaRan /\ args.src_type \notin {"main", "test"})
    => (result.raised = "ValueError" /\ Written = {})

\* C2: with no caller-supplied dependencies and no caller-supplied plugins the
\* build-descriptor emitter completes and writes a pom.xml that holds the three
\* baseline test dependencies and the two baseline build plugins.
C2_BaselineWithoutInputs ==
  (PomRan /\ args.dependencies = <<>> /\ args.plugins = <<>>)
    => /\ result.raised = None
       /\ result.status.tag = "WROTE"
       /\ \E p \in DOMAIN files :
            /\ p.parts # <<>> /\ p.parts[Len(p.parts)] = <<"p", "o", "m", ".", "x", "m", "l">>
            /\ \A piece \in {BaselineJunit, BaselineAssertj, BaselineMockito,
                             BaselineSurefire, BaselineJacoco} : Contains(files[p], piece)

\* C3: for every dependency list and every plugin list, the empty dependency
\* list included, one descriptor document is produced in which the
\* caller-supplied plugin entries stand in input order before the two baseline
\* plugin entries, surefire and then jacoco.
C3_PluginsBeforeBaseline ==
  PomRan
    => /\ result.raised = None
       /\ Cardinality(DOMAIN files) = 1
       /\ \A p \in DOMAIN files :
            \E k \in 1..Len(files[p]) :
              /\ k + Len(args.plugins) + 1 <= Len(files[p])
              /\ \A i \in 1..Len(args.plugins) :
                   files[p][k + i - 1] = PluginXml(args.plugins[i])
              /\ files[p][k + Len(args.plugins)] = BaselineSurefire
              /\ files[p][k + Len(args.plugins) + 1] = BaselineJacoco

KindText(src_type) == IF src_type = "test" THEN <<"t", "e", "s", "t">> ELSE <<"m", "a", "i", "n">>

\* <base>/src/<kind>/java/<packagePath>/<ClassName>.java as one path text
ClaimedJavaPath(a) ==
  Path(a.base_dir \o <<"/", "s", "r", "c", "/">> \o KindText(a.src_type) \o <<"/", "j", "a", "v", "a", "/">>
       \o Replace(Strip(a.base_package), ".", "/") \o <<"/">> \o a.class_name \o <<".", "j", "a", "v", "a">>)

\* C4: for every package name, class name and base directory and for kind in
\* {main, test} the Java class emitter writes exactly the file
\* <base>/src/<kind>/java/<packagePath>/<ClassName>.java, and the tree of one
\* kind is never used for the other.
C4_TargetPath ==
  (JavaRan /\ args.src_type \in {"main", "test"})
    => /\ Written = {ClaimedJavaPath(args)}
       /\ \A p \in Written :
            ~IsUnder(p, Path(args.base_dir \o <<"/", "s", "r", "c", "/">>
                             \o KindText(IF args.src_type = "test" THEN "main" ELSE "test")))

\* every line of the list followed by a line break
RECURSIVE LinesText(_)
LinesText(ls) == IF ls = <<>> THEN <<>> ELSE Head(ls) \o <<NL>> \o LinesText(Tail(ls))

Prefixed(prefix, ls) == [i \in 1..Len(ls) |-> prefix \o ls[i]]

Given(text) == text # None /\ text # <<>>

\* the text the emitter is to render, block after block
ClaimedJavaText(a) ==
  LinesText(<< <<"p", "a", "c", "k", "a", "g", "e", " ">> \o a.base_package \o <<";">>, <<>> >>)
  \o LinesText([i \in 1..Len(a.imports) |-> <<"i", "m", "p", "o", "r", "t", " ">> \o a.imports[i] \o <<";">>])
  \o (IF a.imports # <<>> THEN <<NL>> ELSE <<>>)
  \o (IF Given(a.javadoc)
      THEN LinesText(<< <<"/", "*", "*">> >>) \o LinesText(Prefixed(<<" ", "*", " ">>, SplitLines(a.javadoc)))
           \o LinesText(<< <<" ", "*", "/">> >>)
      ELSE <<>>)
  \o LinesText(a.annotations)
  \o LinesText(<< <<"p", "u", "b", "l", "i", "c", " ", "c", "l", "a", "s", "s", " ">> \o a.class_name \o <<" ", "{">> >>)
  \o (IF Given(a.body) THEN LinesText(Prefixed(<<" ", " ", " ", " ">>, SplitLines(a.body))) ELSE <<>>)
  \o LinesText(<< <<"}">> >>)

ExampleArgs(a) ==
  /\ a.base_package = PkgExample /\ a.class_name = ClsSmoke /\ a.src_type = "test"
  /\ a.body = <<>> /\ a.imports = <<>> /\ a.annotations = <<>> /\ ~Given(a.javadoc)
  /\ a.base_dir = <<".">>

\* C5: the emitter renders the package line, a blank line, the imports in input
\* order with a blank line after them only if there are any, the documentation
\* block only if documentation is given, the annotations in input order, the
\* class opening, the body indented by four spaces and the closing brace; the
\* example of the specification gives exactly its text at its path.
C5_RenderedText ==
  JavaRan
    => /\ result.raised = None
       /\ Cardinality(Written) = 1
       /\ \A p \in Written :
            /\ files[p] = ClaimedJavaText(args)
            /\ ExampleArgs(args)
                 => /\ files[p] = <<"p", "a", "c", "k", "a", "g", "e", " ", "c", "o", "m", ".", "e", "x", "a", "m", "p", "l", "e", ".", "q", "a", ";", "\n", "\n", "p", "u", "b", "l", "i", "c", " ", "c", "l", "a", "s", "s", " ", "S", "m", "o", "k", "e", " ", "{", "\n", "}", "\n">>
                    /\ PathStr(p) = <<"s", "r", "c", "/", "t", "e", "s", "t", "/", "j", "a", "v", "a", "/", "c", "o", "m", "/", "e", "x", "a", "m", "p", "l", "e", "/", "q", "a", "/", "S", "m", "o", "k", "e", ".", "j", "a", "v", "a">>

C5_Witness ==
  /\ JavaRan
  /\ Len(args.imports) = 2 /\ args.imports[1] # args.imports[2]
  /\ Given(args.javadoc) /\ Len(SplitLines(args.javadoc)) = 2
  /\ Len(args.annotations) = 2
  /\ Len(SplitLines(args.body)) = 2
  /\ \E p \in Written : files[p] = ClaimedJavaText(args)

C5_WitnessExample ==
  /\ JavaRan /\ ExampleArgs(args)
  /\ \E p \in Written : files[p] = <<"p", "a", "c", "k", "a", "g", "e", " ", "c", "o", "m", ".", "e", "x", "a", "m", "p", "l", "e", ".", "q", "a", ";", "\n", "\n", "p", "u", "b", "l", "i", "c", " ", "c", "l", "a", "s", "s", " ", "S", "m", "o", "k", "e", " ", "{", "\n", "}", "\n">>

\* the depth of open braces at the end of the text, or -1 once a closing brace
\* has come without an open one
RECURSIVE BraceDepth(_, _)
BraceDepth(text, depth) ==
  IF depth < 0 \/ text = <<>> THEN depth
  ELSE BraceDepth(Tail(text),
                  IF Head(text) = "{" THEN depth + 1
                  ELSE IF Head(text) = "}" THEN depth - 1 ELSE depth)

Balanced(text) == BraceDepth(text, 0) = 0

NoBrace(text) == \A i \in 1..Len(text) : text[i] \notin {"{", "}"}

SingleLine(text) == \A i \in 1..Len(text) : text[i] \notin {"\n", "\r"}

\* the lines of a text that ends with a line break
TextLines(text) == Split(SubSeq(text, 1, Len(text) - 1), NL)

PackageLineFirst(a, text) ==
  TextLines(text)[1] = <<"p", "a", "c", "k", "a", "g", "e", " ">> \o a.base_package \o <<";">>

ImportsOnOwnLines(a, text) ==
  LET ls == TextLines(text)
  IN  \A i \in 1..Len(a.imports) :
        /\ 2 + i <= Len(ls)
        /\ ls[2 + i] = <<"i", "m", "p", "o", "r", "t", " ">> \o a.imports[i] \o <<";">>

\* C6 as stated: for all valid inputs, any body included, the package line is
\* the first line, each import stands on its own line and the braces of the
\* output are balanced.
C6_WellFormedAnyBody ==
  (JavaRan /\ args.src_type \in {"main", "test"})
    => \A p \in Written :
         /\ PackageLineFirst(args, files[p])
         /\ ImportsOnOwnLines(args, files[p])
         /\ Balanced(files[p])

OtherInputsPlain(a) ==
  /\ SingleLine(a.base_package) /\ NoBrace(a.base_package)
  /\ SingleLine(a.class_name) /\ NoBrace(a.class_name)
  /\ \A i \in 1..Len(a.imports) : SingleLine(a.imports[i]) /\ NoBrace(a.imports[i])
  /\ \A i \in 1..Len(a.annotations) : NoBrace(a.annotations[i])
  /\ Given(a.javadoc) => NoBrace(a.javadoc)

\* C6, amended: for kind in {main, test} and a package, class name and imports
\* that are single lines, the package line is the first line and each import
\* stands on its own line; the emitter adds one opening and one closing brace
\* around the body, so with no brace in the other inputs the output's braces
\* are balanced whenever those of the body are.
C6_WellFormedBalancedBody ==
  (JavaRan /\ args.src_type \in {"main", "test"} /\ OtherInputsPlain(args))
    => /\ Written # {}
       /\ \A p \in Written :
            /\ PackageLineFirst(args, files[p])
            /\ ImportsOnOwnLines(args, files[p])
            /\ Balanced(args.body) => Balanced(files[p])

C6_Witness ==
  /\ JavaRan /\ args.src_type \in {"main", "test"} /\ OtherInputsPlain(args)
  /\ args.body = <<"{", "}">>
  /\ Len(args.imports) = 2
  /\ \E p \in Written : Balanced(files[p])

\* C7: _write_file with overwrite=false on a path that exists never changes the
\* file and returns a status that tells of the skip, after any earlier writes.
C7_SkipKeepsFile ==
  (FileWriterRan /\ ~args.overwrite /\ Exists(before, Path(args.path)))
    => /\ files = before.files
       /\ dirs = before.dirs
       /\ result.raised = None
       /\ result.status.tag = "SKIPPED"
       /\ result.status.path = PathStr(Path(args.path))

C7_Witness ==
  /\ FileWriterRan /\ ~args.overwrite /\ calls = MaxCalls
  /\ result.status.tag = "SKIPPED"
  /\ Path(args.path) \in DOMAIN files
  /\ files[Path(args.path)] # args.content
  /\ files[Path(args.path)] # <<>>

\* C8: when _write_file does not skip it makes the parent directories, leaves
\* the file holding exactly the content and returns a 'wrote' status whose
\* number is the length of the UTF-8 encoding of the content.
C8_WroteByteLength ==
  (FileWriterRan /\ result.raised = None
     /\ (args.overwrite \/ ~Exists(before, Path(args.path))))
    => /\ result.status.tag = "WROTE"
       /\ IsDir(FS, Parent(Path(args.path)))
       /\ IsFile(FS, Path(args.path))
       /\ files[Path(args.path)] = args.content
       /\ result.status.bytes = Utf8Len(args.content)

\* C9: the Java class emitter writes with overwrite enabled: whatever the target
\* file held before, afterwards it holds the newly rendered text and the status
\* is 'wrote', and a second run with the same inputs changes nothing.
C9_AlwaysOverwrites ==
  (JavaRan /\ result.raised = None)
    => /\ result.status.tag = "WROTE"
       /\ Written \subseteq {ClaimedJavaPath(args)}
       /\ files[ClaimedJavaPath(args)] = ClaimedJavaText(args)
       /\ \A p \in DOMAIN before.files \ {ClaimedJavaPath(args)} : files[p] = before.files[p]
       /\ JavaCodegenTool_run(FS, args).fs = FS
       /\ JavaCodegenTool_run(FS, args).status = result.status

C9_Witness ==
  /\ JavaRan /\ result.status.tag = "WROTE" /\ calls = MaxCalls
  /\ ClaimedJavaPath(args) \in DOMAIN before.files
  /\ before.files[ClaimedJavaPath(args)] # files[ClaimedJavaPath(args)]
  /\ before.files[ClaimedJavaPath(args)] # <<>>

\* the names the module documents as its tools
DocumentedTools ==
  {"PomXmlTool", "JavaCodegenTool", "FileWriterTool", "RepoScaffolderTool",
   "ReadmeWriterTool", "H2RunnerTool", "JDBCExecutorTool", "MongoEmbedTool",
   "TestcontainersTool", "KafkaMockTool", "OpenAPISchemaTool", "FakerTool",
   "KafkaMessagingScaffoldTool", "EmsMessagingScaffoldTool"}

\* C10: the lookup of a name that is not registered raises an 'unknown tool'
\* error that lists exactly the 14 registered names; the lookup of a registered
\* name returns a new instance of the generator registered under it.
C10_RegistryLookup ==
  LookupRan
    => IF args.name \notin DocumentedTools
       THEN /\ result.raised = "KeyError"
            /\ result.message.text = "Unknown tool"
            /\ result.message.name = args.name
            /\ Len(result.message.known) = 14
            /\ {result.message.known[i] : i \in 1..14} = DocumentedTools
            /\ result.value = None
       ELSE /\ result.raised = None
            /\ result.value.cls = args.name
            /\ instances # <<>> /\ instances[Len(instances)] = result.value
            /\ \A i \in 1..(Len(instances) - 1) : instances[i].id # result.value.id

C10_Witness ==
  /\ LookupRan /\ result.raised = "KeyError" /\ args.name = "filewritertool"
  /\ Len(instances) = 2 /\ instances[1].cls = instances[2].cls

AdapterRan == op = "_materialize_tools"

IsRegisteredName(n) == n \in DocumentedTools

IsUnregisteredName(n) == n \notin DocumentedTools

IsUnregisteredNonEmpty(n) == n \notin DocumentedTools /\ n # ""

ReturnsRegisteredInOrder ==
  /\ result.raised = None
  /\ Len(result.value) = Len(SelectSeq(args.tool_names, IsRegisteredName))
  /\ \A i \in 1..Len(result.value) :
       result.value[i].cls = SelectSeq(args.tool_names, IsRegisteredName)[i]
  /\ \A i, j \in 1..Len(result.value) : i # j => result.value[i].id # result.value[j].id

WarnedNames == [i \in 1..Len(result.warnings) |-> result.warnings[i].name]

\* C11 as stated: the adapter never fails on an unknown name, returns the
\* instances of exactly the registered names in declaration order, duplicates
\* kept, and emits one warning for every name that is not in the registry.
C11_WarnsEveryUnregistered ==
  AdapterRan
    => /\ ReturnsRegisteredInOrder
       /\ WarnedNames = SelectSeq(args.tool_names, IsUnregisteredName)

\* C11, amended: as stated, but a warning is emitted for every non-empty name
\* that is not in the registry; an empty name is skipped without a warning.
C11_WarnsNonEmptyUnregistered ==
  AdapterRan
    => /\ ReturnsRegisteredInOrder
       /\ WarnedNames = SelectSeq(args.tool_names, IsUnregisteredNonEmpty)

C11_Witness ==
  /\ AdapterRan
  /\ args.tool_names = <<"PomXmlTool", "UnknownTool", "PomXmlTool">>
  /\ Len(result.value) = 2 /\ Len(result.warnings) = 1

ScaffoldRan == op = "RepoScaffolderTool"

\* the elements of the list without their later repetitions
RECURSIVE FirstSeen(_, _)
FirstSeen(xs, k) ==
  IF k > Len(xs) THEN <<>>
  ELSE (IF \E j \in 1..(k - 1) : xs[j] = xs[k] THEN <<>> ELSE <<xs[k]>>)
       \o FirstSeen(xs, k + 1)

\* default paths followed by extra paths
CombinedPaths(a) == (IF a.include_defaults THEN DEFAULT_SCAFFOLD ELSE <<>>) \o a.extra_paths

\* C12: for both values of the include-defaults flag the emitter goes through
\* the default paths followed by the extra paths with duplicates removed, first
\* seen first: no path is processed or reported more than once in one run.
C12_NoPathTwice ==
  (ScaffoldRan /\ result.raised = None)
    => LET expected == FirstSeen(CombinedPaths(args), 1)
           lines    == result.status.lines
       IN  /\ Len(lines) = Len(expected)
           /\ \A i \in 1..Len(lines) :
                lines[i].path = PathStr(PathJoin(Path(args.base_dir), Path(expected[i])))
           /\ \A i, j \in 1..Len(lines) : i # j => lines[i].path # lines[j].path

\* C13: a second run with the same inputs reports every path of the list,
\* directories as well as files, as skipped.
C13_SecondRunAllSkipped ==
  (ScaffoldRan /\ result.raised = None)
    => LET second == RepoScaffolderTool_run(FS, args)
       IN  /\ second.raised = None
           /\ second.fs = FS
           /\ Len(second.status.lines) = Len(result.status.lines)
           /\ \A i \in 1..Len(second.status.lines) : second.status.lines[i].tag = "SKIP"

\* C14: the emitter never changes the content of a file that exists before the
\* run: it writes an empty file only where nothing exists and otherwise reports
\* the path as skipped, so every file that was there keeps its content.
C14_ExistingFilesKept ==
  ScaffoldRan
    => /\ \A p \in DOMAIN before.files : p \in DOMAIN files /\ files[p] = before.files[p]
       /\ \A p \in Written : files[p] = <<>> /\ ~Exists(before, p)
       /\ result.raised = None
            => \A i \in 1..Len(result.status.lines) :
                 LET line == result.status.lines[i]
                 IN  /\ line.tag = "FILE"
                       => \E p \in Written : PathStr(p) = line.path
                     /\ (\E p \in DOMAIN before.files : PathStr(p) = line.path)
                       => line.tag = "SKIP"

C14_Witness ==
  /\ ScaffoldRan /\ calls = MaxCalls /\ result.raised = None
  /\ Path(PathReadme) \in DOMAIN before.files
  /\ files[Path(PathReadme)] = <<"x">>
  /\ \E i \in 1..Len(result.status.lines) :
       result.status.lines[i].tag = "SKIP" /\ result.status.lines[i].path = PathReadme
  /\ Written # {}

KafkaRan == op = "KafkaMessagingScaffoldTool"

EmsRan == op = "EmsMessagingScaffoldTool"

MessagingRan == KafkaRan \/ EmsRan

\* the emissions of the run that has just ended
RanEmissions == IF KafkaRan THEN KafkaEmissions(args) ELSE EmsEmissions(args)

\* config, producer, consumer, producer test, consumer test
KafkaArtifactOrder ==
  << <<"K", "a", "f", "k", "a", "C", "o", "n", "f", "i", "g">>,
     <<"K", "a", "f", "k", "a", "P", "r", "o", "d", "u", "c", "e", "r", "C", "l", "i", "e", "n", "t">>,
     <<"K", "a", "f", "k", "a", "C", "o", "n", "s", "u", "m", "e", "r", "C", "l", "i", "e", "n", "t">>,
     <<"K", "a", "f", "k", "a", "P", "r", "o", "d", "u", "c", "e", "r", "T", "e", "s", "t">>,
     <<"K", "a", "f", "k", "a", "C", "o", "n", "s", "u", "m", "e", "r", "T", "e", "s", "t">> >>

\* C15: the Kafka messaging scaffold produces exactly five artifacts, in the
\* order config, producer, consumer, producer test, consumer test; its result
\* is the five status lines in the order of emission, each of them 'wrote'.
C15_FiveArtifactsInOrder ==
  (KafkaRan /\ result.raised = None)
    => LET lines == result.status.lines
           e     == KafkaEmissions(args)
       IN  /\ Len(lines) = 5 /\ Len(e) = 5
           /\ \A i \in 1..5 :
                /\ e[i].class_name = KafkaArtifactOrder[i]
                /\ lines[i].tag = "WROTE"
                /\ lines[i].path = PathStr(JavaTargetPath(e[i]))
                /\ JavaTargetPath(e[i]) \in DOMAIN files
                /\ files[JavaTargetPath(e[i])] = JavaContent(e[i])
                /\ lines[i].bytes = StrLen(JavaContent(e[i]))
           /\ Cardinality({JavaTargetPath(e[i]) : i \in 1..5}) = 5
           /\ Written \subseteq {JavaTargetPath(e[i]) : i \in 1..5}

C15_Witness ==
  /\ KafkaRan /\ result.raised = None
  /\ args.topic = "orders" /\ args.base_package = PkgExample
  /\ Cardinality(Written) = 5

MessagingSuffixes ==
  { <<".", "m", "e", "s", "s", "a", "g", "i", "n", "g", ".", "k", "a", "f", "k", "a">>,
    <<".", "m", "e", "s", "s", "a", "g", "i", "n", "g", ".", "e", "m", "s">> }

\* C16: every artifact of one messaging scaffold run is emitted into the same
\* package, the base package of the caller extended by the suffix of the
\* scaffold.
C16_OnePackage ==
  (MessagingRan /\ result.raised = None)
    => \E suffix \in MessagingSuffixes :
         \A i \in 1..Len(result.status.lines) :
           \A p \in DOMAIN files :
             PathStr(p) = result.status.lines[i].path
               => LET first == <<"p", "a", "c", "k", "a", "g", "e", " ">>
                               \o args.base_package \o suffix \o <<";", NL>>
                  IN  /\ Len(files[p]) >= Len(first)
                      /\ SubSeq(files[p], 1, Len(first)) = first

\* C17: when the k-th emission of a messaging scaffold run fails, the failure
\* reaches the caller, the artifacts of the emissions before k are written
\* with their content, and no artifact from k on is written.
C17_FirstFailureAborts ==
  (MessagingRan /\ result.raised # None)
    => /\ result.status = NoStatus
       /\ \E k \in 1..Len(RanEmissions) :
            /\ \A j \in 1..(k - 1) :
                 /\ JavaTargetPath(RanEmissions[j]) \in DOMAIN files
                 /\ files[JavaTargetPath(RanEmissions[j])] = JavaContent(RanEmissions[j])
            /\ JavaCodegenTool_run(FS, RanEmissions[k]).raised = result.raised
            /\ \A j \in k..Len(RanEmissions) : JavaTargetPath(RanEmissions[j]) \notin Written

C17_Witness ==
  /\ KafkaRan /\ result.raised = "IsADirectoryError"
  /\ Cardinality(Written) = 2
  /\ JavaTargetPath(RanEmissions[1]) \in Written
  /\ JavaTargetPath(RanEmissions[4]) \notin DOMAIN files

OpenApiRan == op = "OpenAPISchemaTool"

\* the lines of a text in which every line ends with a line break
RECURSIVE LinesFrom(_, _)
LinesFrom(text, s) ==
  IF s > Len(text) THEN <<>>
  ELSE LET e == CHOOSE e \in s..Len(text) : text[e] = NL /\ \A j \in s..(e - 1) : text[j] # NL
       IN  <<SubSeq(text, s, e - 1)>> \o LinesFrom(text, e + 1)

OutputLines == LinesFrom(files[OpenApiPath(args)], 1)

\* line i of the output starts with one of the marks (an indentation)
StartsWith(lines, i, marks) == lines[i] # <<>> /\ lines[i][1] \in marks

\* the numbers of the lines below "paths:" that start with the mark
IndentedAt(lines, mark) ==
  SelectSeq([i \in 1..Len(lines) |-> i], LAMBDA i : i > 5 /\ StartsWith(lines, i, {mark}))

\* the last line of the block that starts at line i and ends before the next
\* line that starts with one of the marks
BlockEnd(lines, i, marks) ==
  IF \E j \in (i + 1)..Len(lines) : StartsWith(lines, j, marks)
  THEN (CHOOSE j \in (i + 1)..Len(lines) :
          /\ StartsWith(lines, j, marks)
          /\ \A h \in (i + 1)..(j - 1) : ~StartsWith(lines, h, marks)) - 1
  ELSE Len(lines)

PathLine(path) == <<"  ">> \o path \o <<":">>

MethodLine(method) == <<"    ">> \o method \o <<":">>

\* the lines of the operation rendered below the path and the method
OperationBlock(lines, path, method) ==
  LET p == CHOOSE i \in 6..Len(lines) : lines[i] = PathLine(path)
      q == CHOOSE i \in (p + 1)..BlockEnd(lines, p, {"  "}) : lines[i] = MethodLine(method)
  IN  SubSeq(lines, q + 1, BlockEnd(lines, q, {"  ", "    "}))

SamePlace(e, f) == e.path = f.path /\ Lower(e.method) = Lower(f.method)

\* descriptor i is the last one for its path and lower-cased method
IsLastFor(eps, i) == \A j \in (i + 1)..Len(eps) : ~SamePlace(eps[i], eps[j])

\* C18: the endpoints are grouped by path and then by lower-cased method: each
\* distinct path appears once, in first-seen order, each lower-cased method at
\* most once below its path, and of several descriptors with the same path and
\* the same method up to letter case the last one is rendered.
C18_GroupedByPathAndMethod ==
  (OpenApiRan /\ result.raised = None)
    => LET lines  == OutputLines
           eps    == args.endpoints
           paths  == FirstSeen([i \in 1..Len(eps) |-> eps[i].path], 1)
           pathAt == IndentedAt(lines, "  ")
       IN  /\ [k \in 1..Len(pathAt) |-> lines[pathAt[k]]]
                = [k \in 1..Len(paths) |-> PathLine(paths[k])]
           /\ \A k \in 1..Len(paths) :
                LET here == SelectSeq(eps, LAMBDA e : e.path = paths[k])
                    ms   == FirstSeen([i \in 1..Len(here) |-> Lower(here[i].method)], 1)
                    to   == BlockEnd(lines, pathAt[k], {"  "})
                    mAt  == SelectSeq(IndentedAt(lines, "    "),
                                      LAMBDA i : pathAt[k] < i /\ i <= to)
                IN  /\ [j \in 1..Len(mAt) |-> lines[mAt[j]]]
                         = [j \in 1..Len(ms) |-> MethodLine(ms[j])]
                    /\ \A i \in 1..Len(eps) :
                         (eps[i].path = paths[k] /\ IsLastFor(eps, i))
                           => Join(OperationBlock(lines, paths[k], Lower(eps[i].method)), <<NL>>)
                                = Join(OperationLines(OpBlockOrDefault(eps[i])), <<NL>>)

C18_Witness ==
  /\ OpenApiRan /\ result.raised = None
  /\ Len(args.endpoints) = 3
  /\ SamePlace(args.endpoints[1], args.endpoints[3])
  /\ args.endpoints[1].method # args.endpoints[3].method
  /\ args.endpoints[1].summary # args.endpoints[3].summary
  /\ args.endpoints[2].path # args.endpoints[1].path

ResponsesLine == <<"      responses:">>

\* the block has one responses line, followed by the default entry and no more
DefaultResponsesOnly(block) ==
  \E r \in 1..Len(block) :
    /\ block[r] = ResponsesLine
    /\ \A h \in 1..Len(block) : block[h] = ResponsesLine => h = r
    /\ Len(block) = r + 2
    /\ block[r + 1] = <<"        '200':">>
    /\ block[r + 2] = <<"          description: OK">>

OneResponsesBlock(block) == Cardinality({r \in 1..Len(block) : block[r] = ResponsesLine}) = 1

\* C19: for every endpoint descriptor without a response schema, with or
\* without summary, operation id and request schema, the output has a responses
\* block with just the default 200 entry; every rendered operation has exactly
\* one responses block.
C19_DefaultResponsesEveryDescriptor ==
  (OpenApiRan /\ result.raised = None)
    => \A i \in 1..Len(args.endpoints) :
         LET ep    == args.endpoints[i]
             block == OperationBlock(OutputLines, ep.path, Lower(ep.method))
         IN  /\ OneResponsesBlock(block)
             /\ ~Truthy(ep.responseSchema) => DefaultResponsesOnly(block)

\* C19, amended: the same for every descriptor without a response schema that
\* is the last one for its path and lower-cased method.
C19_DefaultResponsesLastDescriptor ==
  (OpenApiRan /\ result.raised = None)
    => \A i \in 1..Len(args.endpoints) :
         LET ep    == args.endpoints[i]
             block == OperationBlock(OutputLines, ep.path, Lower(ep.method))
         IN  /\ OneResponsesBlock(block)
             /\ (~Truthy(ep.responseSchema) /\ IsLastFor(args.endpoints, i))
                  => DefaultResponsesOnly(block)

C19_Witness ==
  /\ OpenApiRan /\ result.raised = None
  /\ \E i \in 1..Len(args.endpoints) :
       /\ ~Truthy(args.endpoints[i].responseSchema)
       /\ Truthy(args.endpoints[i].requestSchema)
       /\ TruthyStr(args.endpoints[i].operationId)
       /\ IsLastFor(args.endpoints, i)
       /\ DefaultResponsesOnly(OperationBlock(OutputLines, args.endpoints[i].path,
                                              Lower(args.endpoints[i].method)))
  /\ \E i \in 1..Len(args.endpoints) : Truthy(args.endpoints[i].responseSchema)

ReadmeRan == op = "ReadmeWriterTool"

\* for every entry, in the order of the mapping: a blank line, the heading of
\* the second level, the trimmed body
RECURSIVE SectionsText(_)
SectionsText(sections) ==
  IF sections = <<>> THEN <<>>
  ELSE <<NL, "#", "#", " ">> \o Head(sections).h \o <<NL>>
       \o Strip(Head(sections).md) \o <<NL>> \o SectionsText(Tail(sections))

ClaimedReadmePath == PathJoin(Path(args.base_dir), Path(<<"R", "E", "A", "D", "M", "E", ".", "m", "d">>))

\* C20: the README emitter renders '# <title>' and then, for each entry of the
\* sections mapping in mapping order, '## <heading>' and the trimmed body, and
\* writes the text to README.md in the output directory, overwriting.
C20_ReadmeRendered ==
  (ReadmeRan /\ result.raised = None)
    => /\ result.status.tag = "WROTE"
       /\ result.status.path = PathStr(ClaimedReadmePath)
       /\ ClaimedReadmePath \in DOMAIN files
       /\ files[ClaimedReadmePath]
            = <<"#", " ">> \o args.title \o <<NL>>
              \o SectionsText(args.sections)
       /\ Written \subseteq {ClaimedReadmePath}

C20_Witness ==
  /\ ReadmeRan /\ result.raised = None
  /\ ClaimedReadmePath \in DOMAIN before.files
  /\ ClaimedReadmePath \in Written
  /\ Len(args.sections) = 2
  /\ args.sections[1].md # Strip(args.sections[1].md)
  /\ args.sections[2].md # <<>>

ReadTemplateRan == op = "_read_template"

\* C21: _read_template returns the empty text and does not raise when there is
\* nothing at the place of the template, and returns the text of the file with
\* the surrounding whitespace removed when there is a file.
C21_ReadTemplate ==
  ReadTemplateRan
    => LET p == TemplatePath(args.template_name)
       IN  /\ FS = before
           /\ ~Exists(before, p)
                => (result.raised = None /\ result.status.text = <<>>)
           /\ IsFile(before, p)
                => (result.raised = None /\ result.status.text = Strip(before.files[p]))

C21_Witness ==
  /\ ReadTemplateRan /\ result.raised = None
  /\ IsFile(before, TemplatePath(args.template_name))
  /\ before.files[TemplatePath(args.template_name)] # result.status.text
  /\ result.status.text # <<>>

\* C22: the template text an invocation uses is the text read when the module
\* was imported: the template constants never change, and a run of H2RunnerTool
\* or of EmsMessagingScaffoldTool leaves what it would have left with the
\* templates directory of the import.
C22_TemplatesFixedAtStartup ==
  /\ loaded = LoadModule(StartupFS)
  /\ (op = "H2RunnerTool")
       => LET r == H2RunnerTool_run(before, LoadModule(StartupFS), args)
          IN  FS = r.fs /\ result = [raised |-> r.raised, status |-> r.status]
  /\ (op = "EmsMessagingScaffoldTool")
       => LET r == EmsMessagingScaffoldTool_run(
                     before, [args EXCEPT !.templates = TemplateFiles(StartupFS)])
          IN  FS = r.fs /\ result = [raised |-> r.raised, status |-> r.status]

\* the text has the line: it stands between two line ends, or at an end of the text
HasLine(text, line) ==
  \E i \in 1..Len(text) :
    /\ i + Len(line) - 1 <= Len(text)
    /\ SubSeq(text, i, i + Len(line) - 1) = line
    /\ (i = 1 \/ text[i - 1] = NL)
    /\ (i + Len(line) > Len(text) \/ text[i + Len(line)] = NL)

\* C29: the file H2RunnerTool writes has no line "import ;", in the mode
\* 'testcontainers' and in any other mode.
C29_NoEmptyImport ==
  (op = "H2RunnerTool" /\ result.raised = None)
    => ~HasLine(files[JavaTargetPath(H2JavaArgs(loaded, args))],
                <<"i", "m", "p", "o", "r", "t", " ", ";">>)

\* the document of two loops that do not nest: one over the dependencies, then
\* one over the plugins
FlatPom(a) ==
  PomDocument(a, [i \in 1..Len(a.dependencies) |-> DependencyXml(a.dependencies[i])],
                 [j \in 1..Len(a.plugins) |-> PluginXml(a.plugins[j])])

\* how often the fragment stands in the document
Occurrences(doc, fragment) == Cardinality({i \in 1..Len(doc) : doc[i] = fragment})

\* C26: with a non-empty dependency list pom.xml is written and is the document
\* of the two flat loops; every dependency and every plugin of the input stands
\* in it as often as in the input, however many dependencies there are.
C26_PluginsOnceFlattened ==
  (PomRan /\ args.dependencies # <<>>)
    => /\ result.raised = None
       /\ files[PomPath(args)] = FlatPom(args)
       /\ \A j \in 1..Len(args.plugins) :
            Occurrences(files[PomPath(args)], PluginXml(args.plugins[j]))
              = Occurrences(PluginsXml(args.plugins), PluginXml(args.plugins[j]))
       /\ \A i \in 1..Len(args.dependencies) :
            Occurrences(files[PomPath(args)], DependencyXml(args.dependencies[i]))
              = Cardinality({k \in 1..Len(args.dependencies) :
                               args.dependencies[k] = args.dependencies[i]})

C26_Witness ==
  /\ PomRan /\ result.raised = None
  /\ Len(args.dependencies) = 2 /\ Len(args.plugins) = 2
  /\ args.plugins[1] # args.plugins[2]
  /\ files[PomPath(args)] = FlatPom(args)

\* C23: every file a tool writes lies under the base directory the caller gave
\* to that invocation.
C23_WritesUnderBaseDir ==
  \A p \in Written :
    /\ "base_dir" \in DOMAIN args
    /\ IsUnder(p, Path(args.base_dir))

\* the two lines "schema:" of _run, of the request and of the response
SchemaKeyLines == { <<"            schema:">>, <<"              schema:">> }

\* the number of blanks a line starts with: a line of _jsonschema_to_yaml starts
\* with its run of blanks, a line "schema:" of _run with twelve or fourteen
Indent(line) ==
  IF line = <<>> THEN 0
  ELSE IF line = <<"            schema:">> THEN 12
  ELSE IF line = <<"              schema:">> THEN 14
  ELSE IF line[1] \in {Spaces(n) : n \in 1..10} THEN Len(line[1])
  ELSE 0

\* the numbers of the lines rendered from the schema below the line "schema:" at
\* line i: they end before the next line of _run, which is "responses:", a method
\* or a path
SchemaLinesBelow(lines, i) == (i + 1)..BlockEnd(lines, i, {"      responses:", "    ", "  "})

\* C27: every line rendered from a request or response schema is indented
\* strictly deeper than the line "schema:" it belongs to.
C27_SchemaDeeperThanKey ==
  (OpenApiRan /\ result.raised = None)
    => LET lines == OutputLines
       IN  \A i \in 1..Len(lines) :
             lines[i] \in SchemaKeyLines
               => \A j \in SchemaLinesBelow(lines, i) : Indent(lines[j]) > Indent(lines[i])

\* the template with every placeholder replaced by the value of its own
\* parameter, all at once
VerbatimBody(tmpl, a) ==
  Join([i \in 1..Len(tmpl) |->
          IF tmpl[i] = "%DRIVER%" THEN a.driver_class
          ELSE IF tmpl[i] = "%URL%" THEN a.jdbc_url
          ELSE IF tmpl[i] = "%USER%" THEN a.username
          ELSE IF tmpl[i] = "%PASS%" THEN a.password
          ELSE IF tmpl[i] = "%SQL%" THEN a.sql
          ELSE <<tmpl[i]>>], <<>>)

\* C28: the JDBC example is written with each placeholder of the template
\* replaced by the value of its own parameter, the value standing as given,
\* also when it holds a placeholder marker.
C28_ValuesVerbatim ==
  (op = "JDBCExecutorTool" /\ result.raised = None)
    => files[JavaTargetPath(JdbcJavaArgs(loaded, args))]
         = JavaContent([JdbcJavaArgs(loaded, args) EXCEPT
                          !.body = VerbatimBody(loaded.JDBC_EXEC_BODY_TMPL, args)])

BuildAgentsRan == op = "build_agents"

\* the place of the agent of that name among the agents that were built
BuiltAt(agents, name) == CHOOSE i \in 1..Len(agents) : agents[i].name = name

\* C24: every agent with a mapping for a spec is built, and each of its four
\* code execution settings is the value of the YAML spec if the key is there,
\* else the default of the environment if there is one, else the fallback
\* (True, 'safe', 30, 3) if the agent's name is coder in any letter case, else
\* the setting is not passed at all.
C24_SettingPrecedence ==
  BuildAgentsRan
    => LET agents   == result.status.agents
           defaults == _code_exec_defaults(args.env)
       IN  \A k \in 1..Len(args.agents_cfg) :
             LET name == args.agents_cfg[k].name
                 spec == args.agents_cfg[k].spec
             IN  spec.kind = "dict"
                   => /\ \E i \in 1..Len(agents) : agents[i].name = name
                      /\ \A opt \in CodeExecOptions :
                           LET kwargs == agents[BuiltAt(agents, name)].kwargs
                           IN  IF opt \in DOMAIN spec.val
                               THEN opt \in DOMAIN kwargs /\ kwargs[opt] = spec.val[opt]
                               ELSE IF opt \in DOMAIN defaults
                               THEN opt \in DOMAIN kwargs /\ kwargs[opt] = defaults[opt]
                               ELSE IF Lower(name) = <<"c", "o", "d", "e", "r">>
                               THEN opt \in DOMAIN kwargs /\ kwargs[opt] = CoderFallback[opt]
                               ELSE opt \notin DOMAIN kwargs

\* an agent named Coder whose YAML sets one setting to another value than the
\* environment, takes a second from the environment and a third from the fallback
C24_Witness ==
  /\ BuildAgentsRan
  /\ \E i \in 1..Len(result.status.agents) :
       LET a == result.status.agents[i]
           spec == args.agents_cfg[CHOOSE k \in 1..Len(args.agents_cfg) :
                                     args.agents_cfg[k].name = a.name].spec.val
       IN  /\ a.name = <<"C", "o", "d", "e", "r">>
           /\ "allow_code_execution" \in DOMAIN spec
           /\ "allow_code_execution" \in DOMAIN _code_exec_defaults(args.env)
           /\ a.kwargs["allow_code_execution"] = PyBool("False")
           /\ a.kwargs["code_execution_mode"] = PyStr("local")
           /\ "code_execution_mode" \notin DOMAIN spec
           /\ a.kwargs["max_retry_limit"] = PyInt("3")

BuildCrewRan == op = "build_crew"

\* the names of the agents build_agents builds: those with a mapping for a spec
BuiltAgentNames(agents_cfg) ==
  {agents_cfg[i].name : i \in {j \in 1..Len(agents_cfg) : agents_cfg[j].spec.kind = "dict"}}

\* task i is a mapping whose agent is missing or was not built
BadAgent(agents_cfg, tasks_cfg, i) ==
  /\ tasks_cfg[i].spec.kind = "dict"
  /\ (~Truthy(tasks_cfg[i].spec.agent)
        \/ tasks_cfg[i].spec.agent \notin BuiltAgentNames(agents_cfg))

IsMappingTask(entry) == entry.spec.kind = "dict"

IsOtherTask(entry) == entry.spec.kind # "dict"

\* C25: when a task's agent is missing or was not built, build_tasks raises
\* KeyError for the first such task and no crew is made; otherwise the tasks
\* whose spec is not a mapping are skipped with a warning, nothing is raised,
\* and the crew gets the tasks that are mappings in the order of tasks_cfg.
C25_FailFastOrSkip ==
  BuildCrewRan
    => LET acfg == args.agents_cfg
           tcfg == args.tasks_cfg
       IN  IF \E i \in 1..Len(tcfg) : BadAgent(acfg, tcfg, i)
           THEN /\ result.raised = "KeyError"
                /\ result.status.tag = "ERROR"
                /\ result.status.error.task
                     = tcfg[CHOOSE i \in 1..Len(tcfg) :
                              /\ BadAgent(acfg, tcfg, i)
                              /\ \A j \in 1..(i - 1) : ~BadAgent(acfg, tcfg, j)].name
           ELSE /\ result.raised = None
                /\ result.status.tag = "CREW"
                /\ [i \in 1..Len(result.status.crew.tasks) |-> result.status.crew.tasks[i].name]
                     = [i \in 1..Len(SelectSeq(tcfg, IsMappingTask)) |->
                          SelectSeq(tcfg, IsMappingTask)[i].name]
                /\ result.status.task_warnings
                     = [i \in 1..Len(SelectSeq(tcfg, IsOtherTask)) |->
                          SelectSeq(tcfg, IsOtherTask)[i].name]

====
